---- MODULE Spec2Model ----
(***************************************************************************)
(* A model of MoltBot's decision path: the cross-source probability        *)
(* combiner (backend/prediction/probability_combiner.py), the target price *)
(* calculator (backend/prediction/target_price_calculator.py) and the      *)
(* orchestration in PredictionEngine.predict                               *)
(* (backend/prediction/prediction_engine.py); and of the three layers      *)
(* below it: the strategy aggregator (backend/strategies/                  *)
(* strategy_manager.py) with the momentum strategy (rsi_strategy.py), the  *)
(* classifier ensemble (backend/ml/model_predictor.py) and the sentiment   *)
(* aggregator (backend/data/news_sentiment_fetcher.py).                    *)
(*                                                                         *)
(* Numbers.  Python floats are modelled as exact rationals <<n, d>> with   *)
(* d > 0 in lowest terms; round(x, k) is modelled as round-half-even of    *)
(* the exact value.  Binary floating point error (a sum of three quotients *)
(* that is 1 - 2^-53, a product that lands a hair above a threshold) is    *)
(* not modelled.  None is the empty tuple and a present value v is <<v>>.  *)
(***************************************************************************)
EXTENDS Integers, Sequences, FiniteSets, TLC

VARIABLES
    weightArgs,     \* the three arguments given to ProbabilityCombiner(...)
    layerResults,   \* the three layer results given to combine
    combiner,       \* the ProbabilityCombiner object (or the failed construction)
    combined,       \* what the last call of combine returned
    ohlcv,          \* the candle window: None when no price data was obtained
    targetArgs,     \* signal and confidence for a direct call of calculate_target
                    \* (None: no direct call is made)
    minConfidence,  \* the min_confidence argument
    target,         \* what the last direct call of calculate_target returned
    prediction,     \* what the last call of predict returned
    strategyResults,   \* the results list calculate_all hands to _combine_strategies
                       \* (None: the strategy aggregator is not exercised)
    strategyCombined,  \* what _combine_strategies returned
    modelOutcomes,     \* what predict_single_model yields for each classifier
                       \* (None: predict_all is not exercised)
    mlCombined,        \* what predict_all returned
    sentimentSources,  \* what the two sentiment sources deliver
                       \* (None: get_aggregated_sentiment is not exercised)
    sentiment,         \* what get_aggregated_sentiment returned
    closes,            \* the close column given to RSIStrategy.calculate
                       \* (None: the strategy is not exercised)
    rsiResult,         \* what RSIStrategy.calculate returned
    firstOutputs,      \* the layer results combine was called with so far, each
                       \* with what the first call on them returned and whether
                       \* it was called on them again
    rawValue,          \* the object given to _clean_for_serialization
                       \* (None: the method is not exercised)
    cleaned,           \* what _clean_for_serialization returned
    stopArgs,          \* the arguments of calculate_stop_loss
                       \* (None: the method is not exercised)
    stopLoss,          \* what calculate_stop_loss returned
    srCandles,         \* the candle window given to the support/resistance
                       \* strategy (None: the strategy is not exercised)
    srResult,          \* what SupportResistanceStrategy.calculate returned
    vsArgs,            \* the multiplier option and the candle window of the
                       \* volume spike strategy (None: not exercised)
    vsResult,          \* what VolumeSpikeStrategy.calculate returned
    modelFiles,        \* the model files in model_dir
    models,            \* MLModelPredictor.models: the keys of the cache
    mlRequest,         \* the coin and timeframe of the last predict_all
                       \* (None: no call yet)
    mlVoters,          \* the keys of the models that voted in that call
    firstVoters,       \* for every coin and timeframe requested so far,
                       \* the voters of the first call that named them
    wsOpen,            \* the client's end of the /ws/market socket is open
    active_connections,\* ConnectionManager.active_connections
    current_coin,      \* the handler's current_coin
    current_timeframe, \* the handler's current_timeframe
    inbox,             \* the client message not yet received (None: none)
    pc,                \* where the handler's main task and its listener
                       \* task stand
    locals,            \* per task, the prediction and the market data its
                       \* send_full_update holds: the coin and timeframe
                       \* each was computed for
    awaited,           \* the coin and timeframe of the subscription the
                       \* client sent and has had no full_update since
    lastUpdate,        \* the last full_update message sent to the client
    scoreArgs,         \* layer signals with fractional confidences given
                       \* to combine (None: not exercised)
    scoreOut           \* what combine returned for them

combinerVars == <<weightArgs, layerResults, combiner, combined>>
engineVars == <<ohlcv, targetArgs, minConfidence, target, prediction>>
layerVars == <<strategyResults, strategyCombined, modelOutcomes, mlCombined,
               sentimentSources, sentiment>>
strategyVars == <<closes, rsiResult>>
purityVars == <<firstOutputs>>
\* the state of the components added last
serializeVars == <<rawValue, cleaned>>
stopVars == <<stopArgs, stopLoss>>
srVars == <<srCandles, srResult>>
vsVars == <<vsArgs, vsResult>>
predictorVars == <<modelFiles, models, mlRequest, mlVoters, firstVoters>>
wsVars ==
    <<wsOpen, active_connections, current_coin, current_timeframe, inbox, pc, locals,
      awaited, lastUpdate>>
scoreVars == <<scoreArgs, scoreOut>>
restVars ==
    <<purityVars, serializeVars, stopVars, srVars, vsVars, predictorVars, wsVars,
      scoreVars>>
vars == <<combinerVars, engineVars, layerVars, strategyVars, restVars>>

----------------------------------------------------------------------------
(* Bounds of the model *)

\* raw weights tried: None, 0, -1 and k/2 for k in 1..MaxRawWeight
MaxRawWeight == 1
\* layer confidences tried: the grid 0, 100/ConfLevels, ..., 100 and the
\* values of the module's usage example
ConfLevels == 1
\* the atr_period a TargetPriceCalculator is constructed with (the default
\* of 14 scaled down), and the longest candle window tried
AtrPeriod == 2
MaxCandles == 3
\* the entries of a list or dict handed to the serialization cleaner
MaxItems == 2
\* the longest candle window given to the support/resistance strategy
MaxSrCandles == 7
\* the period of the volume average and the longest window given to the
\* volume spike strategy
VolumePeriod == 5
MaxVolumeCandles == 5
\* the news items of one request
MaxNews == 2
\* the period of the momentum oscillator and the longest close column tried
RsiPeriod == 2
MaxCloses == 3

----------------------------------------------------------------------------
(* Exact rational arithmetic standing for float arithmetic *)

Abs(x) == IF x < 0 THEN -x ELSE x

RECURSIVE Gcd(_, _)
Gcd(a, b) == IF b = 0 THEN a ELSE Gcd(b, a % b)

\* the rational n/d (d # 0) in lowest terms with a positive denominator
Rat(n, d) ==
    LET g == Gcd(Abs(n), Abs(d))
        s == IF d < 0 THEN -1 ELSE 1
    IN  <<(s * n) \div g, (s * d) \div g>>

RInt(i) == <<i, 1>>
RNeg(a) == <<-a[1], a[2]>>

\* the operations reduce before they multiply, to keep the integers small
RAdd(a, b) ==
    LET g == Gcd(a[2], b[2])
    IN  Rat(a[1] * (b[2] \div g) + b[1] * (a[2] \div g), (a[2] \div g) * b[2])
RSub(a, b) == RAdd(a, RNeg(b))
RMul(a, b) ==
    LET g1 == Gcd(Abs(a[1]), b[2])
        g2 == Gcd(Abs(b[1]), a[2])
    IN  Rat((a[1] \div g1) * (b[1] \div g2), (a[2] \div g2) * (b[2] \div g1))
RDiv(a, b) == RMul(a, Rat(b[2], b[1]))
RLt(a, b) ==
    LET g == Gcd(a[2], b[2])
    IN  a[1] * (b[2] \div g) < b[1] * (a[2] \div g)
RLe(a, b) == ~RLt(b, a)
RMin(a, b) == IF RLt(b, a) THEN b ELSE a
RMax(a, b) == IF RLt(a, b) THEN b ELSE a

\* round(x, k) with scale = 10^k: the integer nearest to x * scale, ties to even
Round(x, scale) ==
    LET g == Gcd(scale, x[2])
        n == x[1] * (scale \div g)
        d == x[2] \div g
        q == n \div d
        r == n - q * d
    IN  IF 2 * r < d THEN q
        ELSE IF 2 * r > d THEN q + 1
        ELSE IF q % 2 = 0 THEN q ELSE q + 1

None == <<>>
Some(v) == <<v>>

----------------------------------------------------------------------------
(* config.py: the prediction weights *)

STRATEGY_WEIGHT == Rat(40, 100)
ML_WEIGHT == Rat(35, 100)
NEWS_WEIGHT == Rat(25, 100)

----------------------------------------------------------------------------
(* ProbabilityCombiner *)

Signals == {"BUY", "SELL", "NEUTRAL"}

\* Python truthiness of a weight argument: None and 0 are falsy
Falsy(w) == w = None \/ w[1][1] = 0

\* `arg or default`
OrDefault(w, default) == IF Falsy(w) THEN default ELSE w[1]

NoCombiner ==
    [status |-> "none", strategy_weight |-> RInt(0), ml_weight |-> RInt(0),
     news_weight |-> RInt(0)]

\* a constructor that forgets the news weight in the total
CombinerInitTotalWithoutNews(sw, mw, nw) ==
    LET s == OrDefault(sw, STRATEGY_WEIGHT)
        m == OrDefault(mw, ML_WEIGHT)
        n == OrDefault(nw, NEWS_WEIGHT)
        total_weight == RAdd(s, m)
    IN  IF total_weight[1] = 0
        THEN [NoCombiner EXCEPT !.status = "ZeroDivisionError"]
        ELSE [status |-> "ok",
              strategy_weight |-> RDiv(s, total_weight),
              ml_weight |-> RDiv(m, total_weight),
              news_weight |-> RDiv(n, total_weight)]

\* ProbabilityCombiner.__init__: the object it leaves, or the exception it raises
CombinerInit(sw, mw, nw) ==
    LET s == OrDefault(sw, STRATEGY_WEIGHT)
        m == OrDefault(mw, ML_WEIGHT)
        n == OrDefault(nw, NEWS_WEIGHT)
        total_weight == RAdd(RAdd(s, m), n)
    IN  IF total_weight[1] = 0
        THEN [NoCombiner EXCEPT !.status = "ZeroDivisionError"]
        ELSE [status |-> "ok",
              strategy_weight |-> RDiv(s, total_weight),
              ml_weight |-> RDiv(m, total_weight),
              news_weight |-> RDiv(n, total_weight)]

signal_map(s) == CASE s = "BUY" -> 1 [] s = "SELL" -> -1 [] OTHER -> 0

\* an agreement test that forgets the news signal
AllAgreeIgnoringNews(ss, ms, ns) ==
    \/ (ss = "BUY" /\ ms = "BUY")
    \/ (ss = "SELL" /\ ms = "SELL")

\* an agreement test that forgets the strategy signal
AllAgreeIgnoringStrategy(ss, ms, ns) ==
    \/ (ms = "BUY" /\ ns = "BUY")
    \/ (ms = "SELL" /\ ns = "SELL")

AllAgree(ss, ms, ns) ==
    \/ (ss = "BUY" /\ ms = "BUY" /\ ns = "BUY")
    \/ (ss = "SELL" /\ ms = "SELL" /\ ns = "SELL")

\* a disagreement test that fires whenever the two signals differ
StrategyMlDiffer(ss, ms) == ss # ms

StrategyMlOpposite(ss, ms) ==
    \/ (ss = "BUY" /\ ms = "SELL")
    \/ (ss = "SELL" /\ ms = "BUY")

\* a mutation of SignalOfScore with the thresholds at +/- 0.1
SignalOfScoreLowThreshold(final_score) ==
    IF RLt(Rat(10, 100), final_score) THEN "BUY"
    ELSE IF RLt(final_score, Rat(-10, 100)) THEN "SELL"
    ELSE "NEUTRAL"

\* "if final_score > 0.15 ... elif final_score < -0.15 ... else"
SignalOfScore(final_score) ==
    IF RLt(Rat(15, 100), final_score) THEN "BUY"
    ELSE IF RLt(final_score, Rat(-15, 100)) THEN "SELL"
    ELSE "NEUTRAL"

NotCombined ==
    [called |-> FALSE, final_signal |-> "NEUTRAL", final_confidence |-> 0,
     final_score |-> 0, log |-> {}]

\* ProbabilityCombiner.combine.  final_confidence is in hundredths of a point
\* (round(.., 2)), final_score in thousandths (round(.., 3)); log is the set
\* of adjustment messages the call logged.
CombineSignals(self, strategy_signal, strategy_confidence, ml_signal, ml_confidence, news_signal, news_confidence) ==
    LET strategy_weighted ==
            RMul(RInt(signal_map(strategy_signal)), RDiv(strategy_confidence, RInt(100)))
        ml_weighted ==
            RMul(RInt(signal_map(ml_signal)), RDiv(ml_confidence, RInt(100)))
        news_weighted ==
            RMul(RInt(signal_map(news_signal)), RDiv(news_confidence, RInt(100)))
        final_score ==
            RAdd(RAdd(RMul(strategy_weighted, self.strategy_weight),
                      RMul(ml_weighted, self.ml_weight)),
                 RMul(news_weighted, self.news_weight))
        confidence0 ==
            RAdd(RAdd(RMul(strategy_confidence, self.strategy_weight),
                      RMul(ml_confidence, self.ml_weight)),
                 RMul(news_confidence, self.news_weight))
        final_signal == SignalOfScore(final_score)
        agree == AllAgree(strategy_signal, ml_signal, news_signal)
        confidence1 ==
            IF agree THEN RMin(RInt(100), RAdd(confidence0, RInt(15)))
            ELSE confidence0
        opposite == StrategyMlOpposite(strategy_signal, ml_signal)
        confidence2 ==
            IF opposite THEN RMax(RInt(0), RSub(confidence1, RInt(20)))
            ELSE confidence1
    IN  [called |-> TRUE,
         final_signal |-> final_signal,
         final_confidence |-> Round(confidence2, 100),
         final_score |-> Round(final_score, 1000),
         log |-> (IF agree THEN {"All sources agree"} ELSE {})
                 \cup (IF opposite THEN {"Strategy and ML disagree"} ELSE {})]

\* combine on layer results whose confidences are whole numbers
Combine(self, strategy_result, ml_result, news_result) ==
    CombineSignals(self,
                   strategy_result.signal, RInt(strategy_result.avg_confidence),
                   ml_result.signal, RInt(ml_result.avg_confidence),
                   news_result.signal, RInt(news_result.confidence))

----------------------------------------------------------------------------
(* pandas_ta.atr: average true range, Wilder-smoothed over `length` bars *)

Max2(a, b) == IF RLt(a, b) THEN b ELSE a
RAbs(a) == <<Abs(a[1]), a[2]>>

\* the true range of bar i: the first bar has no previous close
TrueRange(df, i) ==
    LET hl == RSub(df[i].high, df[i].low)
    IN  IF i = 1 THEN hl
        ELSE Max2(hl, Max2(RAbs(RSub(df[i].high, df[i - 1].close)),
                           RAbs(RSub(df[i].low, df[i - 1].close))))

RECURSIVE SumTrueRange(_, _)
SumTrueRange(df, n) == IF n = 0 THEN RInt(0) ELSE RAdd(SumTrueRange(df, n - 1), TrueRange(df, n))

\* atr at bar i >= length: the mean of the first `length` true ranges, then
\* (previous * (length - 1) + true range) / length
RECURSIVE AtrAt(_, _, _)
AtrAt(df, length, i) ==
    IF i = length THEN RDiv(SumTrueRange(df, length), RInt(length))
    ELSE RDiv(RAdd(RMul(AtrAt(df, length, i - 1), RInt(length - 1)), TrueRange(df, i)),
              RInt(length))

\* a window shorter than `length` makes the library raise
AtrRaises(df, length) == Len(df) < length
AtrLast(df, length) == AtrAt(df, length, Len(df))

----------------------------------------------------------------------------
(* TargetPriceCalculator *)

NoTarget ==
    [called |-> FALSE, isNone |-> TRUE, target_price |-> None, target_type |-> None,
     current_price |-> None, reason |-> None]

\* calculate_target returned None (its except branch)
TargetNone == [NoTarget EXCEPT !.called = TRUE]

\* a calculate_target without the confidence gate
CalculateTargetNoConfidenceGate(atr_period, df, signal, confidence, min_confidence) ==
    IF Len(df) = 0 THEN TargetNone
    ELSE IF signal = "NEUTRAL"
    THEN [called |-> TRUE, isNone |-> FALSE, target_price |-> None,
          target_type |-> None, current_price |-> Some(df[Len(df)].close),
          reason |-> Some("Signal is NEUTRAL")]
    ELSE IF AtrRaises(df, atr_period) THEN TargetNone
    ELSE
        LET current_price == df[Len(df)].close
            price_movement ==
                RMul(AtrLast(df, atr_period),
                     RAdd(Rat(1, 2), RMul(RDiv(confidence, RInt(100)), Rat(3, 2))))
            target_price ==
                IF signal = "BUY" THEN RAdd(current_price, price_movement)
                ELSE RSub(current_price, price_movement)
        IN  [called |-> TRUE, isNone |-> FALSE,
             target_price |-> Some(Rat(Round(target_price, 100), 100)),
             target_type |-> Some(IF signal = "BUY" THEN "HIGH" ELSE "LOW"),
             current_price |-> Some(Rat(Round(current_price, 100), 100)),
             reason |-> None]

\* TargetPriceCalculator.calculate_target.  Prices are rationals; the full
\* result rounds target_price and current_price to two decimals, the two
\* early returns hand back the last close as it is.  Every exception (an
\* empty window, a window shorter than atr_period) ends in `return None`.
CalculateTarget(atr_period, df, signal, confidence, min_confidence) ==
    IF Len(df) = 0 THEN TargetNone
    ELSE IF RLt(confidence, RInt(min_confidence))
    THEN [called |-> TRUE, isNone |-> FALSE, target_price |-> None,
          target_type |-> None, current_price |-> Some(df[Len(df)].close),
          reason |-> Some("Confidence below threshold")]
    ELSE IF signal = "NEUTRAL"
    THEN [called |-> TRUE, isNone |-> FALSE, target_price |-> None,
          target_type |-> None, current_price |-> Some(df[Len(df)].close),
          reason |-> Some("Signal is NEUTRAL")]
    ELSE IF AtrRaises(df, atr_period) THEN TargetNone
    ELSE
        LET current_atr == AtrLast(df, atr_period)
            current_price == df[Len(df)].close
            confidence_factor ==
                RAdd(Rat(1, 2), RMul(RDiv(confidence, RInt(100)), Rat(3, 2)))
            price_movement == RMul(current_atr, confidence_factor)
            target_price ==
                IF signal = "BUY" THEN RAdd(current_price, price_movement)
                ELSE RSub(current_price, price_movement)
        IN  [called |-> TRUE, isNone |-> FALSE,
             target_price |-> Some(Rat(Round(target_price, 100), 100)),
             target_type |-> Some(IF signal = "BUY" THEN "HIGH" ELSE "LOW"),
             current_price |-> Some(Rat(Round(current_price, 100), 100)),
             reason |-> None]

----------------------------------------------------------------------------
(* PredictionEngine *)

NoPrediction ==
    [called |-> FALSE, current_price |-> RInt(0), error |-> None,
     final |-> [signal |-> "NEUTRAL", confidence |-> RInt(0), target_price |-> None,
                target_type |-> None, meets_threshold |-> FALSE]]

\* PredictionEngine._empty_prediction
EmptyPrediction(error) == [NoPrediction EXCEPT !.called = TRUE, !.error = error]

\* PredictionEngine._clean_for_serialization on the scalars of the final
\* block: None stays None, a finite number is handed back as a Python float
\* of the same value, strings and booleans are untouched
CleanForSerialization(v) == v

\* a mutation of MeetsThreshold: the threshold itself does not meet it
MeetsThresholdStrict(final_confidence, min_confidence) ==
    RLt(RInt(min_confidence), final_confidence)

\* "final_confidence >= min_confidence"
MeetsThreshold(final_confidence, min_confidence) ==
    RLe(RInt(min_confidence), final_confidence)

\* PredictionEngine.predict.  data is None when get_ohlcv obtained nothing,
\* otherwise the window as add_technical_indicators leaves it (it drops the
\* warm-up rows, so the window may be short or empty); the three layer
\* results are what steps 3 to 5 produced.  An empty window makes
\* df['close'].iloc[-1] raise, which the except branch turns into an empty
\* prediction carrying the error text.
Predict(self, atr_period, data, strategy_result, ml_result, news_result, min_confidence) ==
    IF data = None THEN EmptyPrediction(None)
    ELSE IF Len(data[1]) = 0 THEN EmptyPrediction(Some("IndexError"))
    ELSE
        LET df == data[1]
            current_price == df[Len(df)].close
            combinedResult == Combine(self, strategy_result, ml_result, news_result)
            final_signal == combinedResult.final_signal
            final_confidence == Rat(combinedResult.final_confidence, 100)
            target_result ==
                CalculateTarget(atr_period, df, final_signal, final_confidence,
                                min_confidence)
        IN  [called |-> TRUE,
             current_price |-> CleanForSerialization(Rat(Round(current_price, 100), 100)),
             error |-> None,
             final |->
                [signal |-> CleanForSerialization(final_signal),
                 confidence |-> CleanForSerialization(final_confidence),
                 target_price |->
                    CleanForSerialization(IF target_result.isNone THEN None
                                          ELSE target_result.target_price),
                 target_type |->
                    CleanForSerialization(IF target_result.isNone THEN None
                                          ELSE target_result.target_type),
                 meets_threshold |->
                    CleanForSerialization(MeetsThreshold(final_confidence, min_confidence))]]

----------------------------------------------------------------------------
(* StrategyManager._combine_strategies *)

\* sum(r['confidence'] for r in results)
RECURSIVE SumConfidence(_)
SumConfidence(results) ==
    IF results = <<>> THEN RInt(0)
    ELSE RAdd(results[1].confidence, SumConfidence(Tail(results)))

\* sum(1 for r in results if r['signal'] == s)
CountSignal(results, s) == Cardinality({i \in 1..Len(results) : results[i].signal = s})

Max3(a, b, c) == IF a >= b /\ a >= c THEN a ELSE IF b >= c THEN b ELSE c

NotAggregated ==
    [called |-> FALSE, signal |-> "NEUTRAL", avg_confidence |-> RInt(0),
     buy_count |-> 0, sell_count |-> 0, neutral_count |-> 0, total |-> None]

\* a mutation of Wins: an equal count is enough
WinsOnTie(count, other1, other2) == count >= other1 /\ count >= other2

\* buy_count > sell_count and buy_count > neutral_count (and the same test
\* for SELL)
Wins(count, other1, other2) == count > other1 /\ count > other2

\* if not results
EmptyResults(results) == results = <<>>

\* StrategyManager._combine_strategies.  avg_confidence is round(.., 2);
\* total is the total_strategies key, which the early return leaves out.
CombineStrategies(results) ==
    IF EmptyResults(results)
    THEN [NotAggregated EXCEPT !.called = TRUE]
    ELSE
        LET n == Len(results)
            buy_count == CountSignal(results, "BUY")
            sell_count == CountSignal(results, "SELL")
            neutral_count == CountSignal(results, "NEUTRAL")
            total_confidence == SumConfidence(results)
            avg_confidence ==
                IF results # <<>> THEN RDiv(total_confidence, RInt(n)) ELSE RInt(0)
            max_count == Max3(buy_count, sell_count, neutral_count)
            signal ==
                IF Wins(buy_count, sell_count, neutral_count) THEN "BUY"
                ELSE IF Wins(sell_count, buy_count, neutral_count) THEN "SELL"
                ELSE "NEUTRAL"
            adjusted ==
                IF signal = "BUY"
                THEN RMin(RInt(100), RAdd(avg_confidence, RMul(Rat(buy_count, n), RInt(20))))
                ELSE IF signal = "SELL"
                THEN RMin(RInt(100), RAdd(avg_confidence, RMul(Rat(sell_count, n), RInt(20))))
                ELSE RMax(RInt(0),
                          RSub(avg_confidence,
                               RMul(RSub(RInt(1), Rat(max_count, n)), RInt(30))))
        IN  [called |-> TRUE, signal |-> signal,
             avg_confidence |-> Rat(Round(adjusted, 100), 100),
             buy_count |-> buy_count, sell_count |-> sell_count,
             neutral_count |-> neutral_count, total |-> Some(n)]

----------------------------------------------------------------------------
(* MLModelPredictor: predict_all and _combine_predictions *)

\* a mutation of MlAgreementBoost: the coefficient of the strategy aggregator
MlAgreementBoost20(count, n) == RMul(Rat(count, n), RInt(20))

\* (buy_count / len(predictions)) * 15
MlAgreementBoost(count, n) == RMul(Rat(count, n), RInt(15))

\* a mutation of EmptyPredictions: the early return is missing
EmptyPredictionsNotChecked(predictions) == FALSE

\* if not predictions
EmptyPredictions(predictions) == predictions = <<>>

\* MLModelPredictor._combine_predictions.  neutral_count stays 0: the method
\* counts BUY and SELL only.  total is the total_models key.
CombinePredictions(predictions) ==
    IF EmptyPredictions(predictions)
    THEN [NotAggregated EXCEPT !.called = TRUE]
    ELSE
        LET n == Len(predictions)
            buy_count == CountSignal(predictions, "BUY")
            sell_count == CountSignal(predictions, "SELL")
            total_confidence == SumConfidence(predictions)
            avg_confidence ==
                IF predictions # <<>> THEN RDiv(total_confidence, RInt(n)) ELSE RInt(0)
            signal ==
                IF buy_count > sell_count THEN "BUY"
                ELSE IF sell_count > buy_count THEN "SELL"
                ELSE "NEUTRAL"
            adjusted ==
                IF signal = "BUY"
                THEN RMin(RInt(100), RAdd(avg_confidence, MlAgreementBoost(buy_count, n)))
                ELSE IF signal = "SELL"
                THEN RMin(RInt(100), RAdd(avg_confidence, MlAgreementBoost(sell_count, n)))
                ELSE RMax(RInt(20), RSub(avg_confidence, RInt(20)))
        IN  [called |-> TRUE, signal |-> signal,
             avg_confidence |-> Rat(Round(adjusted, 100), 100),
             buy_count |-> buy_count, sell_count |-> sell_count,
             neutral_count |-> 0, total |-> Some(n)]

\* the predictions list predict_all builds: "if pred: predictions.append(pred)"
RECURSIVE Obtained(_)
Obtained(outcomes) ==
    IF outcomes = <<>> THEN <<>>
    ELSE IF outcomes[1] # None THEN <<outcomes[1][1]>> \o Obtained(Tail(outcomes))
    ELSE Obtained(Tail(outcomes))

\* a mutation of PredictAll: a classifier that yields nothing is kept as a
\* NEUTRAL vote of confidence 0
RECURSIVE ObtainedOrZero(_)
ObtainedOrZero(outcomes) ==
    IF outcomes = <<>> THEN <<>>
    ELSE <<IF outcomes[1] # None THEN outcomes[1][1]
           ELSE [signal |-> "NEUTRAL", confidence |-> RInt(0)]>>
         \o ObtainedOrZero(Tail(outcomes))
PredictAllCountingFailures(outcomes) == CombinePredictions(ObtainedOrZero(outcomes))

\* MLModelPredictor.predict_all, given what predict_single_model yields for
\* each classifier (None when the classifier is not loaded or its
\* prediction fails)
PredictAll(outcomes) == CombinePredictions(Obtained(outcomes))

----------------------------------------------------------------------------
(* NewsSentimentFetcher *)

\* the two source weights of get_aggregated_sentiment
FEAR_GREED_WEIGHT == Rat(3, 10)
NEWS_SOURCE_WEIGHT == Rat(7, 10)

\* get_fear_greed_index, given the index value (0..100) the service reports
FearGreedIndex(value) ==
    [sentiment_score |-> Rat(value - 50, 50),
     confidence |-> RMin(RInt(100), RInt(Abs(value - 50) * 2))]

RECURSIVE SumScore(_)
SumScore(items) ==
    IF items = <<>> THEN RInt(0) ELSE RAdd(items[1].score, SumScore(Tail(items)))

RECURSIVE SumWeightedScore(_)
SumWeightedScore(items) ==
    IF items = <<>> THEN RInt(0)
    ELSE RAdd(RMul(items[1].score, items[1].confidence), SumWeightedScore(Tail(items)))

NonZeroScore(n) == n.score # RInt(0)

\* the entry the fear/greed source appends to sentiments
FearGreedEntry(fg_index) ==
    IF fg_index # None
    THEN <<[score |-> fg_index[1].sentiment_score,
            confidence |-> RMul(fg_index[1].confidence, FEAR_GREED_WEIGHT),
            source |-> "fear_greed"]>>
    ELSE <<>>

\* the entry the news source appends: the mean of the non-zero scores and
\* the mean confidence of all items
NewsEntry(news) ==
    LET news_scores == SelectSeq(news, NonZeroScore)
    IN  IF news # <<>> /\ news_scores # <<>>
        THEN <<[score |-> RDiv(SumScore(news_scores), RInt(Len(news_scores))),
                confidence |-> RMul(RDiv(SumConfidence(news), RInt(Len(news))),
                                    NEWS_SOURCE_WEIGHT),
                source |-> "cryptopanic"]>>
        ELSE <<>>

NoSentiment ==
    [called |-> FALSE, sentiment_score |-> RInt(0), confidence |-> RInt(0),
     signal |-> "NEUTRAL", num_sources |-> 0]

\* a mutation of SentimentSignal: the thresholds are inclusive
SentimentSignalInclusive(weighted_score) ==
    IF RLe(Rat(2, 10), weighted_score) THEN "BUY"
    ELSE IF RLe(weighted_score, Rat(-2, 10)) THEN "SELL"
    ELSE "NEUTRAL"

\* "Convert sentiment score to signal"
SentimentSignal(weighted_score) ==
    IF RLt(Rat(2, 10), weighted_score) THEN "BUY"
    ELSE IF RLt(weighted_score, Rat(-2, 10)) THEN "SELL"
    ELSE "NEUTRAL"

\* NewsSentimentFetcher.get_aggregated_sentiment.  fg_index is None when
\* get_fear_greed_index obtained nothing, otherwise the dict it returned;
\* news is the list get_cryptopanic_news returned (empty when the request
\* failed), each item with its score and confidence.
GetAggregatedSentiment(fg_index, news) ==
    LET sentiments == FearGreedEntry(fg_index) \o NewsEntry(news)
        total_weight == SumConfidence(sentiments)
    IN  IF sentiments # <<>> /\ RLt(RInt(0), total_weight)
        THEN LET weighted_score == RDiv(SumWeightedScore(sentiments), total_weight)
                 avg_confidence == RDiv(SumConfidence(sentiments), RInt(Len(sentiments)))
             IN  [called |-> TRUE, sentiment_score |-> weighted_score,
                  confidence |-> Rat(Round(avg_confidence, 100), 100),
                  signal |-> SentimentSignal(weighted_score),
                  num_sources |-> Len(sentiments)]
        ELSE [NoSentiment EXCEPT !.called = TRUE]

----------------------------------------------------------------------------
(* RSIStrategy, over ta.momentum.rsi *)

RSI_OVERBOUGHT == 70
RSI_OVERSOLD == 30

\* a float that is not a number
NaN == <<>>

\* Python's max(a, x) and min(a, x) for a number a and a float x that may be
\* NaN: x replaces a only when the comparison with a is true
PyMax(a, x) == IF x # NaN /\ RLt(a, x[1]) THEN x ELSE Some(a)
PyMin(a, x) == IF x # NaN /\ RLt(x[1], a) THEN x ELSE Some(a)

\* the gain and the loss of candle i against the candle before it (0 for the
\* first candle, whose difference is not a number)
UpDirection(close, i) ==
    IF i > 1 /\ RLt(close[i - 1], close[i]) THEN RSub(close[i], close[i - 1]) ELSE RInt(0)
DownDirection(close, i) ==
    IF i > 1 /\ RLt(close[i], close[i - 1]) THEN RSub(close[i - 1], close[i]) ELSE RInt(0)

\* ewm(alpha = 1/length, adjust = False).mean() of the gains and of the losses
RECURSIVE EmaUp(_, _, _)
EmaUp(close, length, i) ==
    IF i = 1 THEN UpDirection(close, 1)
    ELSE RAdd(RMul(Rat(length - 1, length), EmaUp(close, length, i - 1)),
              RMul(Rat(1, length), UpDirection(close, i)))
RECURSIVE EmaDown(_, _, _)
EmaDown(close, length, i) ==
    IF i = 1 THEN DownDirection(close, 1)
    ELSE RAdd(RMul(Rat(length - 1, length), EmaDown(close, length, i - 1)),
              RMul(Rat(1, length), DownDirection(close, i)))

\* ta.rsi(close, length).iloc[-1] for a non-empty column: not a number while
\* fewer than length candles are there (min_periods = length)
RsiLast(close, length) ==
    LET n == Len(close)
        emaup == EmaUp(close, length, n)
        emadn == EmaDown(close, length, n)
    IN  IF n < length THEN NaN
        ELSE IF emadn = RInt(0) THEN Some(RInt(100))
        ELSE Some(RSub(RInt(100),
                       RDiv(RInt(100), RAdd(RInt(1), RDiv(emaup, emadn)))))

NoStrategyResult ==
    [called |-> FALSE, signal |-> "NEUTRAL", confidence |-> RInt(0), value |-> Some(RInt(0)),
     error |-> None]

\* round(x, 2) of a float that may be NaN
Round2(x) == IF x = NaN THEN NaN ELSE Some(Rat(Round(x[1], 100), 100))

\* a mutation of RsiOversold: the threshold itself is excluded
RsiOversoldStrict(current_rsi, oversold) ==
    current_rsi # NaN /\ RLt(current_rsi[1], RInt(oversold))

\* current_rsi <= self.oversold
RsiOversold(current_rsi, oversold) ==
    current_rsi # NaN /\ RLe(current_rsi[1], RInt(oversold))

\* current_rsi >= self.overbought
RsiOverbought(current_rsi, overbought) ==
    current_rsi # NaN /\ RLe(RInt(overbought), current_rsi[1])

\* RSIStrategy.calculate on the close column.  An empty column makes
\* rsi.iloc[-1] raise, and the except branch answers.
RsiCalculate(period, overbought, oversold, close) ==
    IF Len(close) = 0
    THEN [NoStrategyResult EXCEPT !.called = TRUE, !.error = Some("IndexError")]
    ELSE
        LET current_rsi == RsiLast(close, period)
            buy == RsiOversold(current_rsi, oversold)
            sell == ~buy /\ RsiOverbought(current_rsi, overbought)
            signal == IF buy THEN "BUY" ELSE IF sell THEN "SELL" ELSE "NEUTRAL"
            confidence ==
                IF buy
                THEN PyMin(RInt(100),
                           Some(RAdd(RInt(50),
                                     RMul(RSub(RInt(oversold), current_rsi[1]), RInt(2)))))
                ELSE IF sell
                THEN PyMin(RInt(100),
                           Some(RAdd(RInt(50),
                                     RMul(RSub(current_rsi[1], RInt(overbought)), RInt(2)))))
                ELSE PyMax(RInt(20),
                           IF current_rsi = NaN THEN NaN
                           ELSE Some(RAbs(RSub(current_rsi[1], RInt(50)))))
        IN  [called |-> TRUE, signal |-> signal, confidence |-> Round2(confidence)[1],
             value |-> Round2(current_rsi), error |-> None]

----------------------------------------------------------------------------
(* TargetPriceCalculator.calculate_stop_loss *)

\* a mutation of TighterStop: the stop further from the price
WiderStop(signal, atr_stop, pct_stop) ==
    IF signal = "BUY" THEN RMin(atr_stop, pct_stop) ELSE RMax(atr_stop, pct_stop)

\* "max(atr_stop, pct_stop)" for BUY, "min(atr_stop, pct_stop)" otherwise
TighterStop(signal, atr_stop, pct_stop) ==
    IF signal = "BUY" THEN RMax(atr_stop, pct_stop) ELSE RMin(atr_stop, pct_stop)

CalculateStopLoss(current_price, signal, atr, risk_pct) ==
    LET atr_move == RMul(atr, Rat(3, 2))
        risk     == RDiv(risk_pct, RInt(100))
        atr_stop == IF signal = "BUY" THEN RSub(current_price, atr_move)
                    ELSE RAdd(current_price, atr_move)
        pct_stop == IF signal = "BUY" THEN RMul(current_price, RSub(RInt(1), risk))
                    ELSE RMul(current_price, RAdd(RInt(1), risk))
        stop_loss == TighterStop(signal, atr_stop, pct_stop)
    IN  Rat(Round(stop_loss, 100), 100)

----------------------------------------------------------------------------
(* SupportResistanceStrategy: pivots, clustering and the decision.  A      *)
(* candle is a record of high, low and close.                              *)

LOOKBACK == 50
SR_THRESHOLD == Rat(2, 100)

\* df.tail(lookback)
LastCandles(df, lookback) ==
    IF Len(df) <= lookback THEN df ELSE SubSeq(df, Len(df) - lookback + 1, Len(df))

IsPivotHigh(df, i) ==
    /\ RLt(df[i - 1].high, df[i].high)
    /\ RLt(df[i - 2].high, df[i].high)
    /\ RLt(df[i + 1].high, df[i].high)
    /\ RLt(df[i + 2].high, df[i].high)

IsPivotLow(df, i) ==
    /\ RLt(df[i].low, df[i - 1].low)
    /\ RLt(df[i].low, df[i - 2].low)
    /\ RLt(df[i].low, df[i + 1].low)
    /\ RLt(df[i].low, df[i + 2].low)

RECURSIVE PivotHighsFrom(_, _)
\* the pivot highs at the positions i, i + 1, ... up to the third last
PivotHighsFrom(df, i) ==
    IF i > Len(df) - 2 THEN <<>>
    ELSE (IF IsPivotHigh(df, i) THEN <<df[i].high>> ELSE <<>>) \o PivotHighsFrom(df, i + 1)

RECURSIVE PivotLowsFrom(_, _)
PivotLowsFrom(df, i) ==
    IF i > Len(df) - 2 THEN <<>>
    ELSE (IF IsPivotLow(df, i) THEN <<df[i].low>> ELSE <<>>) \o PivotLowsFrom(df, i + 1)

\* _find_pivots: (lows, highs); "range(2, len(df) - 2)" is 3..Len(df)-2 here
FindPivots(df) == <<PivotLowsFrom(df, 3), PivotHighsFrom(df, 3)>>

RECURSIVE InsertSorted(_, _)
InsertSorted(x, sorted) ==
    IF sorted = <<>> THEN <<x>>
    ELSE IF RLt(x, Head(sorted)) THEN <<x>> \o sorted
    ELSE <<Head(sorted)>> \o InsertSorted(x, Tail(sorted))

RECURSIVE Sorted(_)
\* sorted(levels)
Sorted(levels) ==
    IF levels = <<>> THEN <<>> ELSE InsertSorted(Head(levels), Sorted(Tail(levels)))

RECURSIVE SumLevels(_)
SumLevels(levels) ==
    IF levels = <<>> THEN RInt(0) ELSE RAdd(Head(levels), SumLevels(Tail(levels)))

\* np.mean(current_cluster)
Mean(cluster) == RDiv(SumLevels(cluster), RInt(Len(cluster)))

RECURSIVE ClusterFrom(_, _, _)
\* the loop of _cluster_levels over the sorted levels still to visit
ClusterFrom(levels, current_cluster, threshold) ==
    IF levels = <<>> THEN <<Mean(current_cluster)>>
    ELSE LET level == Head(levels)
             last  == current_cluster[Len(current_cluster)]
         IN  IF RLe(RDiv(RSub(level, last), last), threshold)
             THEN ClusterFrom(Tail(levels), Append(current_cluster, level), threshold)
             ELSE <<Mean(current_cluster)>>
                      \o ClusterFrom(Tail(levels), <<level>>, threshold)

\* _cluster_levels
ClusterLevels(levels, threshold) ==
    IF levels = <<>> THEN <<>>
    ELSE LET sorted == Sorted(levels)
         IN  ClusterFrom(Tail(sorted), <<Head(sorted)>>, threshold)

\* the highest level below the price, None when there is none
NearestSupport(levels, current_price) ==
    LET below == {i \in DOMAIN levels : RLt(levels[i], current_price)}
    IN  IF below = {} THEN None
        ELSE Some(levels[CHOOSE i \in below : \A j \in below : RLe(levels[j], levels[i])])

\* the lowest level above the price, None when there is none
NearestResistance(levels, current_price) ==
    LET above == {i \in DOMAIN levels : RLt(current_price, levels[i])}
    IN  IF above = {} THEN None
        ELSE Some(levels[CHOOSE i \in above : \A j \in above : RLe(levels[i], levels[j])])

\* "if nearest_support:": a level that is neither None nor 0.0
Truthy(level) == level # None /\ level[1][1] # 0

SrDecision(current_price, nearest_support, nearest_resistance) ==
    LET hundred == RInt(100)
        support_distance ==
            IF Truthy(nearest_support)
            THEN Some(RMul(RDiv(RSub(current_price, nearest_support[1]), current_price), hundred))
            ELSE None
        resistance_distance ==
            IF Truthy(nearest_resistance)
            THEN Some(RMul(RDiv(RSub(nearest_resistance[1], current_price), current_price), hundred))
            ELSE None
    IN  IF support_distance # None /\ RLt(support_distance[1], RInt(1))
        THEN [signal |-> "BUY",
              confidence |-> RMin(hundred, RAdd(RInt(60),
                                 RMul(RSub(RInt(1), support_distance[1]), RInt(30)))),
              rule |-> "near_support"]
        ELSE IF resistance_distance # None /\ RLt(resistance_distance[1], RInt(1))
        THEN [signal |-> "SELL",
              confidence |-> RMin(hundred, RAdd(RInt(60),
                                 RMul(RSub(RInt(1), resistance_distance[1]), RInt(30)))),
              rule |-> "near_resistance"]
        ELSE IF Truthy(nearest_resistance) /\ RLt(nearest_resistance[1], current_price)
        THEN [signal |-> "BUY",
              confidence |-> RMin(hundred, RAdd(RInt(50),
                                 RMul(RMul(RDiv(RSub(current_price, nearest_resistance[1]),
                                                nearest_resistance[1]), hundred), RInt(20)))),
              rule |-> "breakout"]
        ELSE IF Truthy(nearest_support) /\ RLt(current_price, nearest_support[1])
        THEN [signal |-> "SELL",
              confidence |-> RMin(hundred, RAdd(RInt(50),
                                 RMul(RMul(RDiv(RSub(nearest_support[1], current_price),
                                                nearest_support[1]), hundred), RInt(20)))),
              rule |-> "breakdown"]
        ELSE [signal |-> "NEUTRAL", confidence |-> RInt(30), rule |-> "none"]

\* SupportResistanceStrategy.calculate; rule names the branch that decided
SrCalculate(lookback, threshold, df) ==
    IF df = <<>>
    THEN [signal |-> "NEUTRAL", confidence |-> RInt(0), rule |-> "error",
          support_levels |-> <<>>, resistance_levels |-> <<>>,
          nearest_support |-> None, nearest_resistance |-> None, error |-> Some("IndexError")]
    ELSE LET df_lookback == LastCandles(df, lookback)
             pivots == FindPivots(df_lookback)
             support_levels == ClusterLevels(pivots[1], threshold)
             resistance_levels == ClusterLevels(pivots[2], threshold)
             current_price == df[Len(df)].close
             nearest_support == NearestSupport(support_levels, current_price)
             nearest_resistance == NearestResistance(resistance_levels, current_price)
             decision == SrDecision(current_price, nearest_support, nearest_resistance)
         IN  [signal |-> decision.signal,
              confidence |-> Rat(Round(decision.confidence, 100), 100),
              rule |-> decision.rule,
              support_levels |-> support_levels, resistance_levels |-> resistance_levels,
              nearest_support |-> nearest_support, nearest_resistance |-> nearest_resistance,
              error |-> None]

----------------------------------------------------------------------------
(* VolumeSpikeStrategy.  A candle is a record of close and volume.         *)

VOLUME_SPIKE_MULTIPLIER == RInt(2)

\* "self.multiplier = multiplier or settings.VOLUME_SPIKE_MULTIPLIER"
VolumeSpikeMultiplier(multiplier) ==
    IF multiplier = None \/ multiplier[1][1] = 0 THEN VOLUME_SPIKE_MULTIPLIER
    ELSE multiplier[1]

RECURSIVE SumVolume(_, _, _)
SumVolume(df, from, to) ==
    IF from > to THEN RInt(0) ELSE RAdd(df[from].volume, SumVolume(df, from + 1, to))

\* the last value of ta.sma(df['volume'], length=period): NaN on a window
\* shorter than the period
VolumeSmaLast(df, period) ==
    IF Len(df) < period THEN NaN
    ELSE Some(RDiv(SumVolume(df, Len(df) - period + 1, Len(df)), RInt(period)))

\* "confidence = max(20, 30 + (volume_ratio - 1) * 20)"
MinorSpikeConfidence(volume_ratio) ==
    RMax(RInt(20), RAdd(RInt(30), RMul(RSub(volume_ratio, RInt(1)), RInt(20))))

VolumeSpikeError(error) ==
    [signal |-> "NEUTRAL", confidence |-> RInt(0), volume_ratio |-> None, is_spike |-> FALSE,
     error |-> Some(error)]

\* VolumeSpikeStrategy.calculate
VolumeSpikeCalculate(multiplier, period, df) ==
    IF Len(df) < 2 THEN VolumeSpikeError("IndexError")
    ELSE
    LET current_volume == df[Len(df)].volume
        avg_volume == VolumeSmaLast(df, period)
        current_close == df[Len(df)].close
        prev_close == df[Len(df) - 1].close
        price_change_pct == RMul(RDiv(RSub(current_close, prev_close), prev_close), RInt(100))
        volume_ratio == IF avg_volume # NaN /\ RLt(RInt(0), avg_volume[1])
                        THEN RDiv(current_volume, avg_volume[1])
                        ELSE RInt(1)
        is_spike == RLe(multiplier, volume_ratio)
        spike_confidence ==
            RMin(RInt(100),
                 RAdd(RAdd(RInt(50), RMul(RSub(volume_ratio, multiplier), RInt(15))),
                      RMul(RAbs(price_change_pct), RInt(3))))
        decision ==
            IF is_spike
            THEN IF RLt(RInt(1), price_change_pct) THEN <<"BUY", spike_confidence>>
                 ELSE IF RLt(price_change_pct, RInt(-1)) THEN <<"SELL", spike_confidence>>
                 ELSE <<"NEUTRAL", RInt(30)>>
            ELSE IF RLt(Rat(12, 10), volume_ratio) /\ RLt(Rat(1, 2), RAbs(price_change_pct))
                 THEN <<IF RLt(RInt(0), price_change_pct) THEN "BUY" ELSE "SELL",
                        MinorSpikeConfidence(volume_ratio)>>
                 ELSE <<"NEUTRAL",
                        RMax(RInt(10), RSub(RInt(25),
                                            RMul(RAbs(RSub(RInt(1), volume_ratio)), RInt(10))))>>
    IN  IF avg_volume = NaN
        THEN VolumeSpikeError("ValueError")    \* int(avg_volume) of NaN
        ELSE [signal |-> decision[1],
              confidence |-> Rat(Round(decision[2], 100), 100),
              volume_ratio |-> Some(volume_ratio), is_spike |-> is_spike, error |-> None]

----------------------------------------------------------------------------
(* MLModelPredictor: the cache of loaded models and the models that vote.  *)
(* A key of the cache, and a model file, is a model name with a suffix:    *)
(* <<>> for the generic model, <<coin, timeframe>> for a specific one.     *)

ModelNames == {"logistic_regression", "random_forest", "xgboost"}

ModelKey(name, suffix) == [name |-> name, suffix |-> suffix]

\* 'suffix = f"_{coin}_{timeframe}" if coin and timeframe else ""'
Suffix(coin, timeframe) ==
    IF coin # None /\ timeframe # None THEN <<coin[1], timeframe[1]>> ELSE <<>>

\* load_model: a key already cached stays; otherwise the specific file, or
\* the generic file in its place, is loaded under the key
LoadModel(cache, files, name, suffix) ==
    IF ModelKey(name, suffix) \in cache THEN cache
    ELSE IF ModelKey(name, suffix) \in files \/ ModelKey(name, <<>>) \in files
    THEN cache \cup {ModelKey(name, suffix)}
    ELSE cache

\* load_all_models: load_model for each of the three names
LoadAllModels(cache, files, suffix) ==
    LoadModel(LoadModel(LoadModel(cache, files, "logistic_regression", suffix),
                        files, "random_forest", suffix),
              files, "xgboost", suffix)

\* key.endswith(suffix), the key being the name followed by its own suffix
KeyEndsWith(key, suffix) == suffix = <<>> \/ key.suffix = suffix

\* "_" in key
KeyHasUnderscore(key) ==
    key.suffix # <<>> \/ key.name \in {"logistic_regression", "random_forest"}

\* 'if key.endswith(suffix) or "_" not in key'
Votes(key, suffix) == KeyEndsWith(key, suffix) \/ ~KeyHasUnderscore(key)

\* the keys whose models predict_all asks for a prediction
Voters(cache, suffix) == {key \in cache : Votes(key, suffix)}

----------------------------------------------------------------------------
(* PredictionEngine._clean_for_serialization on any object.  An object is  *)
(* a dict or a list (tuple, ndarray) with its entries, or a scalar: a      *)
(* native Python float, a numpy scalar, a string or None.  A number is     *)
(* finite (with its value), nan, inf or -inf.                              *)

Scalar(kind, num, val) == [kind |-> kind, num |-> num, val |-> val, items |-> <<>>]
Container(kind, items) == [kind |-> kind, num |-> "none", val |-> RInt(0), items |-> items]
NoneValue == Scalar("none", "none", RInt(0))

NonFinite == {"nan", "inf", "-inf"}

\* a mutation of CleanNumpyScalar where the item is tested before it is
\* returned
CleanNumpyScalarTested(obj) ==
    IF obj.num \in NonFinite THEN NoneValue ELSE [obj EXCEPT !.kind = "float"]

\* "elif hasattr(obj, 'item') ...: return obj.item()": the numpy scalar as
\* the native float of the same value, returned at once
CleanNumpyScalar(obj) == [obj EXCEPT !.kind = "float"]

\* a mutation of CleanFloat: a non-finite float becomes 0
CleanFloatToZero(obj) ==
    IF obj.num \in NonFinite THEN Scalar("float", "finite", RInt(0)) ELSE obj

\* "if isinstance(obj, (float, int)) and (math.isnan(obj) or
\* math.isinf(obj)): return None"
CleanFloat(obj) == IF obj.num \in NonFinite THEN NoneValue ELSE obj

RECURSIVE CleanObject(_)
\* PredictionEngine._clean_for_serialization, in the order of its tests
CleanObject(obj) ==
    IF obj.kind = "dict"
    THEN Container("dict", [i \in DOMAIN obj.items |-> CleanObject(obj.items[i])])
    ELSE IF obj.kind = "list"
    THEN Container("list", [i \in DOMAIN obj.items |-> CleanObject(obj.items[i])])
    ELSE IF obj.kind = "numpy" THEN CleanNumpyScalar(obj)
    ELSE IF obj.kind = "float" THEN CleanFloat(obj)
    ELSE obj

----------------------------------------------------------------------------
(* The inputs tried *)

RawWeightArgs ==
    {None, Some(RInt(0)), Some(RInt(-1))} \cup {Some(Rat(k, 2)) : k \in 1..MaxRawWeight}

ConfGrid == {(100 * i) \div ConfLevels : i \in 0..ConfLevels}
StrategyConfs == ConfGrid \cup {65}
MlConfs == ConfGrid \cup {58}
NewsConfs == ConfGrid \cup {45}

LayerResultSets ==
    [strategy : [signal : Signals, avg_confidence : StrategyConfs],
     ml : [signal : Signals, avg_confidence : MlConfs],
     news : [signal : Signals, confidence : NewsConfs]]

\* candles: prices of 1.000 and 1.004, low <= close <= high
Prices == {Rat(1000, 1000), Rat(1004, 1000)}
Candles ==
    {c \in [high : Prices, low : Prices, close : Prices] :
        RLe(c.low, c.close) /\ RLe(c.close, c.high)}

RECURSIVE WindowsOfLength(_)
WindowsOfLength(n) ==
    IF n = 0 THEN {<<>>}
    ELSE {Append(w, c) : w \in WindowsOfLength(n - 1), c \in Candles}

Windows == UNION {WindowsOfLength(n) : n \in 0..MaxCandles}

\* the thresholds tried: the default and the lowest the API passes on
MinConfidences == {0, 60}

\* confidences for a direct call of calculate_target
DirectConfidences == {RInt(0), Rat(5999, 100), RInt(60), RInt(65), RInt(100)}

NeutralLayers ==
    [strategy |-> [signal |-> "NEUTRAL", avg_confidence |-> 0],
     ml |-> [signal |-> "NEUTRAL", avg_confidence |-> 0],
     news |-> [signal |-> "NEUTRAL", confidence |-> 0]]

\* layer results handed to the fusion inside predict: every signal, silent
\* or fully confident
EngineConfs == {0, 100}
EngineLayerResultSets ==
    [strategy : [signal : Signals, avg_confidence : EngineConfs],
     ml : [signal : Signals, avg_confidence : EngineConfs],
     news : [signal : Signals, confidence : EngineConfs]]

\* the strategy results tried: what a strategy can answer (0 is the answer of
\* a strategy whose calculation failed)
StrategyVotes ==
    {[signal |-> "BUY", confidence |-> RInt(100)],
     [signal |-> "BUY", confidence |-> RInt(20)],
     [signal |-> "SELL", confidence |-> RInt(100)],
     [signal |-> "SELL", confidence |-> RInt(65)],
     [signal |-> "NEUTRAL", confidence |-> RInt(30)],
     [signal |-> "NEUTRAL", confidence |-> RInt(0)]}

\* the six strategies of StrategyManager.__init__; fewer results come back
\* when enabled_strategies switches some off
NumStrategies == 6

\* the lists of n elements of S
ListsOfLength(S, n) == [1..n -> S]

StrategyResultLists == UNION {ListsOfLength(StrategyVotes, n) : n \in 0..NumStrategies}

\* the classifier votes tried: predict_single_model answers BUY or SELL with
\* round(max(proba) * 100, 2), or 60 for a model without predict_proba.  The
\* models are whatever the .pkl files hold; a two-class model gives 50 or
\* more, one with more classes can give less.
MlVoteConfs == {RInt(30), RInt(60), RInt(100)}
MlVotes == [signal : {"BUY", "SELL"}, confidence : MlVoteConfs]

\* load_all_models tries three classifiers
NumModels == 3
ModelOutcomeLists == ListsOfLength({None} \cup {Some(v) : v \in MlVotes}, NumModels)

\* the fear/greed index values tried (None: the request failed) and the news
\* items tried, each with the polarity and confidence _analyze_text_sentiment
\* gave its title
FearGreedValues == {0, 39, 40, 50, 60, 61, 100}
NewsItems ==
    {[score |-> RInt(0), confidence |-> RInt(20)],
     [score |-> Rat(1, 2), confidence |-> RInt(50)],
     [score |-> Rat(-1, 2), confidence |-> RInt(100)],
     [score |-> Rat(1, 10), confidence |-> RInt(20)]}
NewsLists == UNION {ListsOfLength(NewsItems, n) : n \in 0..MaxNews}
SentimentSourceSets ==
    [fear_greed : {None} \cup {Some(FearGreedIndex(v)) : v \in FearGreedValues},
     news : NewsLists]

\* the close columns tried
ClosePrices == {RInt(100), RInt(101), RInt(102), RInt(107)}
CloseWindows == UNION {ListsOfLength(ClosePrices, n) : n \in 0..MaxCloses}

\* no layer is exercised and none has answered
LayersIdle ==
    /\ strategyResults = None
    /\ strategyCombined = NotAggregated
    /\ modelOutcomes = None
    /\ mlCombined = NotAggregated
    /\ sentimentSources = None
    /\ sentiment = NoSentiment

StrategiesIdle ==
    /\ closes = None
    /\ rsiResult = NoStrategyResult

\* combine has not been called on any layer results
PurityIdle == firstOutputs = {}

SerializeIdle ==
    /\ rawValue = None
    /\ cleaned = None

StopLossIdle ==
    /\ stopArgs = None
    /\ stopLoss = None

SupportResistanceIdle ==
    /\ srCandles = None
    /\ srResult = None

VolumeSpikeIdle ==
    /\ vsArgs = None
    /\ vsResult = None

PredictorIdle ==
    /\ modelFiles = {}
    /\ models = {}
    /\ mlRequest = None
    /\ mlVoters = {}
    /\ firstVoters = {}

Tasks == {"main", "listener"}
NoLocals == [prediction |-> None, market_data |-> None]

ScoreIdle ==
    /\ scoreArgs = None
    /\ scoreOut = None

\* no client has connected to /ws/market
WebSocketIdle ==
    /\ wsOpen = FALSE
    /\ active_connections = <<>>
    /\ current_coin = "BTC"
    /\ current_timeframe = "1h"
    /\ inbox = None
    /\ pc = [t \in Tasks |-> "none"]
    /\ locals = [t \in Tasks |-> NoLocals]
    /\ awaited = None
    /\ lastUpdate = None

\* the components added last are not exercised
RestIdle ==
    /\ PurityIdle
    /\ SerializeIdle
    /\ StopLossIdle
    /\ SupportResistanceIdle
    /\ VolumeSpikeIdle
    /\ PredictorIdle
    /\ WebSocketIdle
    /\ ScoreIdle

----------------------------------------------------------------------------
(* The combiner on its own: a caller constructs one and calls combine *)

Init ==
    /\ weightArgs \in RawWeightArgs \X RawWeightArgs \X RawWeightArgs
    /\ layerResults \in LayerResultSets
    /\ combiner = NoCombiner
    /\ combined = NotCombined
    /\ ohlcv = None
    /\ targetArgs = None
    /\ minConfidence = 60
    /\ target = NoTarget
    /\ prediction = NoPrediction
    /\ LayersIdle
    /\ StrategiesIdle
    /\ RestIdle

Construct ==
    /\ combiner.status = "none"
    /\ combiner' = CombinerInit(weightArgs[1], weightArgs[2], weightArgs[3])
    /\ UNCHANGED <<weightArgs, layerResults, combined, engineVars, layerVars, strategyVars, restVars>>

CallCombine ==
    /\ combiner.status = "ok"
    /\ combined' = Combine(combiner, layerResults.strategy, layerResults.ml,
                           layerResults.news)
    /\ UNCHANGED <<weightArgs, layerResults, combiner, engineVars, layerVars, strategyVars, restVars>>

Next == Construct \/ CallCombine

Spec == Init /\ [][Next]_vars

----------------------------------------------------------------------------------------------------------------------------------------
(* The engine.  PredictionEngine.__init__ has built ProbabilityCombiner()  *)
(* and TargetPriceCalculator(); a caller calls predict, or calls           *)
(* calculate_target on a calculator directly.                              *)

EngineInit ==
    /\ weightArgs = <<None, None, None>>
    /\ combiner = CombinerInit(None, None, None)
    /\ combined = NotCombined
    /\ ohlcv \in {None} \cup {Some(w) : w \in Windows}
    /\ minConfidence \in MinConfidences
    /\ \/ /\ layerResults \in EngineLayerResultSets
          /\ targetArgs = None
       \/ /\ layerResults = NeutralLayers
          /\ targetArgs \in {Some(a) : a \in [signal : Signals, confidence : DirectConfidences]}
    /\ target = NoTarget
    /\ prediction = NoPrediction
    /\ LayersIdle
    /\ StrategiesIdle
    /\ RestIdle

CallCalculateTarget ==
    /\ ohlcv # None
    /\ targetArgs # None
    /\ target' = CalculateTarget(AtrPeriod, ohlcv[1], targetArgs[1].signal,
                                 targetArgs[1].confidence, minConfidence)
    /\ UNCHANGED <<combinerVars, ohlcv, targetArgs, minConfidence, prediction, layerVars,
                   strategyVars, restVars>>

CallPredict ==
    /\ prediction' = Predict(combiner, AtrPeriod, ohlcv, layerResults.strategy,
                             layerResults.ml, layerResults.news, minConfidence)
    /\ UNCHANGED <<combinerVars, ohlcv, targetArgs, minConfidence, target, layerVars,
                   strategyVars, restVars>>

EngineNext == CallCalculateTarget \/ CallPredict

EngineSpec == EngineInit /\ [][EngineNext]_vars

----------------------------------------------------------------------------
(* The three layers.  One of them is exercised: the strategy aggregator on  *)
(* the results of the enabled strategies, predict_all on the classifiers'  *)
(* outcomes, or get_aggregated_sentiment on what the two sources deliver.  *)

CombinerIdle ==
    /\ weightArgs = <<None, None, None>>
    /\ layerResults = NeutralLayers
    /\ combiner = NoCombiner
    /\ combined = NotCombined

EngineIdle ==
    /\ ohlcv = None
    /\ targetArgs = None
    /\ minConfidence = 60
    /\ target = NoTarget
    /\ prediction = NoPrediction

LayerInit ==
    /\ CombinerIdle
    /\ EngineIdle
    /\ StrategiesIdle
    /\ RestIdle
    /\ strategyCombined = NotAggregated
    /\ mlCombined = NotAggregated
    /\ sentiment = NoSentiment
    /\ \/ /\ strategyResults \in {Some(l) : l \in StrategyResultLists}
          /\ modelOutcomes = None
          /\ sentimentSources = None
       \/ /\ strategyResults = None
          /\ modelOutcomes \in {Some(l) : l \in ModelOutcomeLists}
          /\ sentimentSources = None
       \/ /\ strategyResults = None
          /\ modelOutcomes = None
          /\ sentimentSources \in {Some(s) : s \in SentimentSourceSets}

CallCombineStrategies ==
    /\ strategyResults # None
    /\ strategyCombined' = CombineStrategies(strategyResults[1])
    /\ UNCHANGED <<combinerVars, engineVars, strategyVars, restVars, strategyResults,
                   modelOutcomes, mlCombined, sentimentSources, sentiment>>

CallPredictAll ==
    /\ modelOutcomes # None
    /\ mlCombined' = PredictAll(modelOutcomes[1])
    /\ UNCHANGED <<combinerVars, engineVars, strategyVars, restVars, strategyResults,
                   strategyCombined, modelOutcomes, sentimentSources, sentiment>>

CallGetAggregatedSentiment ==
    /\ sentimentSources # None
    /\ sentiment' = GetAggregatedSentiment(sentimentSources[1].fear_greed,
                                           sentimentSources[1].news)
    /\ UNCHANGED <<combinerVars, engineVars, strategyVars, restVars, strategyResults,
                   strategyCombined, modelOutcomes, mlCombined, sentimentSources>>

LayerNext == CallCombineStrategies \/ CallPredictAll \/ CallGetAggregatedSentiment

LayerSpec == LayerInit /\ [][LayerNext]_vars

----------------------------------------------------------------------------
(* A strategy.  StrategyManager built RSIStrategy() with the thresholds of *)
(* config.py; calculate is called on a close column.                       *)

StrategyInit ==
    /\ CombinerIdle
    /\ EngineIdle
    /\ LayersIdle
    /\ RestIdle
    /\ closes \in {Some(w) : w \in CloseWindows}
    /\ rsiResult = NoStrategyResult

CallRsiCalculate ==
    /\ closes # None
    /\ rsiResult' = RsiCalculate(RsiPeriod, RSI_OVERBOUGHT, RSI_OVERSOLD, closes[1])
    /\ UNCHANGED <<combinerVars, engineVars, layerVars, restVars, closes>>

StrategyNext == CallRsiCalculate

StrategySpec == StrategyInit /\ [][StrategyNext]_vars

----------------------------------------------------------------------------
(* Repeated calls of combine on one combiner.  A caller constructed the     *)
(* combiner and calls combine again and again, on layer results of its      *)
(* choice.                                                                  *)

\* the layer results the repeated calls choose from: the module's usage
\* example, full agreement on SELL, and strategy against ml
PurityInputs ==
    {[strategy |-> [signal |-> "BUY", avg_confidence |-> 65],
      ml |-> [signal |-> "BUY", avg_confidence |-> 58],
      news |-> [signal |-> "NEUTRAL", confidence |-> 45]],
     [strategy |-> [signal |-> "SELL", avg_confidence |-> 100],
      ml |-> [signal |-> "SELL", avg_confidence |-> 58],
      news |-> [signal |-> "SELL", confidence |-> 45]],
     [strategy |-> [signal |-> "BUY", avg_confidence |-> 65],
      ml |-> [signal |-> "SELL", avg_confidence |-> 100],
      news |-> [signal |-> "BUY", confidence |-> 100]]}

\* a mutation of CombinerAfterCombine: combine folds the news weight into
\* the strategy weight once it has used it
CombinerAfterCombineFoldsNews(self) ==
    [self EXCEPT !.strategy_weight = RAdd(self.strategy_weight, self.news_weight),
                 !.news_weight = RInt(0)]

\* the combiner object after a call of combine: the method reads
\* self.strategy_weight, self.ml_weight and self.news_weight and assigns
\* no attribute
CombinerAfterCombine(self) == self

PurityInit ==
    /\ weightArgs \in RawWeightArgs \X RawWeightArgs \X RawWeightArgs
    /\ combiner = CombinerInit(weightArgs[1], weightArgs[2], weightArgs[3])
    /\ layerResults = NeutralLayers
    /\ combined = NotCombined
    /\ firstOutputs = {}
    /\ SerializeIdle
    /\ StopLossIdle
    /\ SupportResistanceIdle
    /\ VolumeSpikeIdle
    /\ PredictorIdle
    /\ WebSocketIdle
    /\ ScoreIdle
    /\ EngineIdle
    /\ LayersIdle
    /\ StrategiesIdle

CallCombineAgain ==
    /\ combiner.status = "ok"
    /\ \E r \in PurityInputs :
          LET out == Combine(combiner, r.strategy, r.ml, r.news)
          IN  /\ layerResults' = r
              /\ combined' = out
              /\ combiner' = CombinerAfterCombine(combiner)
              /\ firstOutputs' =
                    IF \E e \in firstOutputs : e.args = r
                    THEN {IF e.args = r THEN [e EXCEPT !.again = TRUE] ELSE e :
                            e \in firstOutputs}
                    ELSE firstOutputs \cup {[args |-> r, output |-> out, again |-> FALSE]}
    /\ UNCHANGED <<weightArgs, engineVars, layerVars, strategyVars, serializeVars, stopVars,
                   srVars, vsVars, predictorVars, wsVars,
                   scoreVars>>

PurityNext == CallCombineAgain

PuritySpec == PurityInit /\ [][PurityNext]_vars

----------------------------------------------------------------------------
(* The serialization cleaner on its own *)

\* the scalars tried
Scalars ==
    {NoneValue, Scalar("str", "none", RInt(0))}
        \cup {Scalar(k, "finite", v) : k \in {"float", "numpy"}, v \in {RInt(0), Rat(3, 2)}}
        \cup {Scalar(k, n, RInt(0)) : k \in {"float", "numpy"}, n \in NonFinite}

\* lists and dicts of scalars, and such a list or dict as the one entry of
\* an outer dict or list (the shape of prediction['strategy']['details'])
FlatContainers ==
    {Container(k, items) : k \in {"dict", "list"},
                           items \in UNION {ListsOfLength(Scalars, n) : n \in 0..MaxItems}}
Objects ==
    Scalars \cup FlatContainers
        \cup {Container(k, <<c>>) : k \in {"dict", "list"}, c \in FlatContainers}

SerializeInit ==
    /\ CombinerIdle
    /\ EngineIdle
    /\ LayersIdle
    /\ StrategiesIdle
    /\ PurityIdle
    /\ StopLossIdle
    /\ SupportResistanceIdle
    /\ VolumeSpikeIdle
    /\ PredictorIdle
    /\ WebSocketIdle
    /\ ScoreIdle
    /\ rawValue \in {Some(o) : o \in Objects}
    /\ cleaned = None

CallCleanForSerialization ==
    /\ rawValue # None
    /\ cleaned' = Some(CleanObject(rawValue[1]))
    /\ UNCHANGED <<combinerVars, engineVars, layerVars, strategyVars, purityVars,
                   stopVars, srVars, vsVars, predictorVars, wsVars,
                   scoreVars, rawValue>>

SerializeNext == CallCleanForSerialization

SerializeSpec == SerializeInit /\ [][SerializeNext]_vars

----------------------------------------------------------------------------
(* The stop loss on its own *)

StopPrices == {RInt(100), Rat(99999, 1000), Rat(1, 1000), Rat(5, 2)}
StopAtrs == {RInt(0), Rat(1, 1000), RInt(1), RInt(4)}
StopRiskPcts == {RInt(0), RInt(3), RInt(5)}
StopArgs ==
    [current_price : StopPrices, signal : Signals, atr : StopAtrs, risk_pct : StopRiskPcts]

StopLossInit ==
    /\ CombinerIdle
    /\ EngineIdle
    /\ LayersIdle
    /\ StrategiesIdle
    /\ PurityIdle
    /\ SerializeIdle
    /\ SupportResistanceIdle
    /\ VolumeSpikeIdle
    /\ PredictorIdle
    /\ WebSocketIdle
    /\ ScoreIdle
    /\ stopArgs \in {Some(a) : a \in StopArgs}
    /\ stopLoss = None

CallCalculateStopLoss ==
    /\ stopArgs # None
    /\ LET a == stopArgs[1]
       IN  stopLoss' = Some(CalculateStopLoss(a.current_price, a.signal, a.atr, a.risk_pct))
    /\ UNCHANGED <<combinerVars, engineVars, layerVars, strategyVars, purityVars,
                   serializeVars, srVars, vsVars, predictorVars, wsVars,
                   scoreVars, stopArgs>>

StopLossNext == CallCalculateStopLoss

StopLossSpec == StopLossInit /\ [][StopLossNext]_vars

----------------------------------------------------------------------------
(* The support/resistance strategy on its own *)

Candle(high, low, close) == [high |-> high, low |-> low, close |-> close]

\* the candles tried: two whose highs and lows fall into one cluster, one
\* above them and one below them
SrCandleShapes ==
    {Candle(RInt(104), RInt(98), Rat(197, 2)),
     Candle(RInt(105), RInt(97), RInt(104)),
     Candle(RInt(110), RInt(101), RInt(108)),
     Candle(RInt(95), RInt(85), RInt(86))}

MinSrCandles == 6
SrWindows == UNION {ListsOfLength(SrCandleShapes, n) : n \in MinSrCandles..MaxSrCandles}

SupportResistanceInit ==
    /\ CombinerIdle
    /\ EngineIdle
    /\ LayersIdle
    /\ StrategiesIdle
    /\ PurityIdle
    /\ SerializeIdle
    /\ StopLossIdle
    /\ VolumeSpikeIdle
    /\ PredictorIdle
    /\ WebSocketIdle
    /\ ScoreIdle
    /\ srCandles \in {Some(w) : w \in SrWindows}
    /\ srResult = None

CallSrCalculate ==
    /\ srCandles # None
    /\ srResult' = Some(SrCalculate(LOOKBACK, SR_THRESHOLD, srCandles[1]))
    /\ UNCHANGED <<combinerVars, engineVars, layerVars, strategyVars, purityVars,
                   serializeVars, stopVars, vsVars, predictorVars, wsVars,
                   scoreVars, srCandles>>

SupportResistanceNext == CallSrCalculate

SupportResistanceSpec == SupportResistanceInit /\ [][SupportResistanceNext]_vars

----------------------------------------------------------------------------
(* The volume spike strategy on its own *)

VolumeCandle(close, volume) == [close |-> close, volume |-> volume]
VolumeCandleShapes ==
    {VolumeCandle(c, v) : c \in {RInt(100), RInt(102)}, v \in {RInt(10), RInt(600)}}
MinVolumeCandles == 4
VolumeWindows ==
    {<<VolumeCandle(RInt(100), RInt(10))>>}
        \cup UNION {ListsOfLength(VolumeCandleShapes, n) : n \in MinVolumeCandles..MaxVolumeCandles}
\* the multiplier option: left out, the documented 2.0, and larger ones
VolumeMultipliers == {None, Some(RInt(2)), Some(RInt(3)), Some(RInt(10))}

VolumeSpikeInit ==
    /\ CombinerIdle
    /\ EngineIdle
    /\ LayersIdle
    /\ StrategiesIdle
    /\ PurityIdle
    /\ SerializeIdle
    /\ StopLossIdle
    /\ SupportResistanceIdle
    /\ PredictorIdle
    /\ WebSocketIdle
    /\ ScoreIdle
    /\ vsArgs \in {Some([multiplier |-> m, df |-> w]) : m \in VolumeMultipliers, w \in VolumeWindows}
    /\ vsResult = None

CallVolumeSpikeCalculate ==
    /\ vsArgs # None
    /\ vsResult' = Some(VolumeSpikeCalculate(VolumeSpikeMultiplier(vsArgs[1].multiplier),
                                             VolumePeriod, vsArgs[1].df))
    /\ UNCHANGED <<combinerVars, engineVars, layerVars, strategyVars, purityVars,
                   serializeVars, stopVars, srVars, predictorVars, wsVars,
                   scoreVars, vsArgs>>

VolumeSpikeNext == CallVolumeSpikeCalculate

VolumeSpikeSpec == VolumeSpikeInit /\ [][VolumeSpikeNext]_vars

----------------------------------------------------------------------------
(* The classifier layer over a sequence of requests *)

PredictorCoins == {None, Some("BTC"), Some("ETH")}
PredictorTimeframes == {None, Some("1h")}
\* the files that may lie in model_dir: generic ones and those of BTC 1h
PossibleModelFiles ==
    {ModelKey(n, x) : n \in ModelNames, x \in {<<>>, <<"BTC", "1h">>}}

PredictorInit ==
    /\ CombinerIdle
    /\ EngineIdle
    /\ LayersIdle
    /\ StrategiesIdle
    /\ PurityIdle
    /\ SerializeIdle
    /\ StopLossIdle
    /\ SupportResistanceIdle
    /\ VolumeSpikeIdle
    /\ WebSocketIdle
    /\ ScoreIdle
    /\ modelFiles \in SUBSET PossibleModelFiles
    /\ models = {}
    /\ mlRequest = None
    /\ mlVoters = {}
    /\ firstVoters = {}

\* predict_all(df, coin, timeframe): load, then collect the voters
CallPredictAllFor ==
    \E coin \in PredictorCoins, timeframe \in PredictorTimeframes :
        LET suffix == Suffix(coin, timeframe)
            loaded == LoadAllModels(models, modelFiles, suffix)
            voters == Voters(loaded, suffix)
            request == [coin |-> coin, timeframe |-> timeframe]
        IN  /\ models' = loaded
            /\ mlRequest' = Some(request)
            /\ mlVoters' = voters
            /\ firstVoters' =
                   IF \E e \in firstVoters : e.request = request THEN firstVoters
                   ELSE firstVoters \cup {[request |-> request, voters |-> voters]}
            /\ UNCHANGED <<combinerVars, engineVars, layerVars, strategyVars, purityVars,
                           serializeVars, stopVars, srVars, vsVars, wsVars,
                           scoreVars, modelFiles>>

PredictorNext == CallPredictAllFor

PredictorSpec == PredictorInit /\ [][PredictorNext]_vars

----------------------------------------------------------------------------
(* The /ws/market handler: one client, the handler's main task (initial    *)
(* and periodic updates) and its listener task, interleaved at their       *)
(* awaits.  A prediction or a market data set is represented by the coin   *)
(* and timeframe it was computed for.                                      *)

\* a client message may carry a coin, a timeframe, or both; the messages
\* tried: two full subscriptions and one that names a coin only
ClientMessages ==
    {[coin |-> Some("ETH"), timeframe |-> Some("1m")],
     [coin |-> Some("BTC"), timeframe |-> Some("1h")],
     [coin |-> Some("ETH"), timeframe |-> None]}

otherVars ==
    <<combinerVars, engineVars, layerVars, strategyVars, purityVars, serializeVars,
      stopVars, srVars, vsVars, predictorVars, scoreVars>>

WebSocketInit ==
    /\ CombinerIdle
    /\ EngineIdle
    /\ LayersIdle
    /\ StrategiesIdle
    /\ PurityIdle
    /\ SerializeIdle
    /\ StopLossIdle
    /\ SupportResistanceIdle
    /\ VolumeSpikeIdle
    /\ PredictorIdle
    /\ WebSocketIdle
    /\ ScoreIdle

\* websocket_market up to the start of the initial update: manager.connect,
\* the defaults BTC and 1h, and the listener task created
Connect ==
    /\ pc["main"] = "none"
    /\ wsOpen' = TRUE
    /\ active_connections' = Append(active_connections, "ws")
    /\ current_coin' = "BTC"
    /\ current_timeframe' = "1h"
    /\ pc' = [main |-> "predict", listener |-> "receive"]
    /\ UNCHANGED <<otherVars, inbox, locals, awaited, lastUpdate>>

\* the client sends a message
ClientSubscribe ==
    /\ wsOpen
    /\ inbox = None
    /\ \E msg \in ClientMessages :
           /\ inbox' = Some(msg)
           /\ awaited' = IF msg.coin # None /\ msg.timeframe # None
                          THEN Some(<<msg.coin[1], msg.timeframe[1]>>)
                          ELSE None
    /\ UNCHANGED <<otherVars, wsOpen, active_connections, current_coin, current_timeframe,
                   pc, locals, lastUpdate>>

\* the client closes the socket
ClientDisconnect ==
    /\ wsOpen
    /\ wsOpen' = FALSE
    /\ UNCHANGED <<otherVars, active_connections, current_coin, current_timeframe, inbox,
                   pc, locals, awaited, lastUpdate>>

\* listen_for_messages: receive_json returns a message; the subscription
\* is updated and send_full_update begins
ListenerReceive ==
    /\ pc["listener"] = "receive"
    /\ inbox # None
    /\ current_coin' = IF inbox[1].coin # None THEN inbox[1].coin[1] ELSE current_coin
    /\ current_timeframe' =
           IF inbox[1].timeframe # None THEN inbox[1].timeframe[1] ELSE current_timeframe
    /\ inbox' = None
    /\ pc' = [pc EXCEPT !["listener"] = "predict"]
    /\ UNCHANGED <<otherVars, wsOpen, active_connections, locals, awaited, lastUpdate>>

\* listen_for_messages: receive_json raises on the closed socket, the bare
\* except swallows it and the listener task ends
ListenerDisconnected ==
    /\ pc["listener"] = "receive"
    /\ inbox = None
    /\ ~wsOpen
    /\ pc' = [pc EXCEPT !["listener"] = "ended"]
    /\ UNCHANGED <<otherVars, wsOpen, active_connections, current_coin, current_timeframe,
                   inbox, locals, awaited, lastUpdate>>

\* where a task goes when its send_full_update returns
AfterUpdate(task) == IF task = "main" THEN "sleep" ELSE "receive"

\* send_full_update, step 1: the prediction for the coin and timeframe of
\* the moment of the call
UpdatePredict(task) ==
    /\ pc[task] = "predict"
    /\ locals' = [locals EXCEPT ![task] =
                      [prediction |-> Some(<<current_coin, current_timeframe>>),
                       market_data |-> None]]
    /\ pc' = [pc EXCEPT ![task] = "fetch"]
    /\ UNCHANGED <<otherVars, wsOpen, active_connections, current_coin, current_timeframe,
                   inbox, awaited, lastUpdate>>

\* send_full_update, step 2: fetch_data reads the coin and timeframe when
\* it runs; without market data nothing is sent
UpdateFetch(task) ==
    /\ pc[task] = "fetch"
    /\ \E available \in BOOLEAN :
           IF available
           THEN /\ locals' = [locals EXCEPT ![task].market_data =
                                  Some(<<current_coin, current_timeframe>>)]
                /\ pc' = [pc EXCEPT ![task] = "send"]
           ELSE /\ locals' = [locals EXCEPT ![task] = NoLocals]
                /\ pc' = [pc EXCEPT ![task] = AfterUpdate(task)]
    /\ UNCHANGED <<otherVars, wsOpen, active_connections, current_coin, current_timeframe,
                   inbox, awaited, lastUpdate>>

\* the message send_full_update builds: it names the coin and timeframe of
\* the moment it is built
FullUpdate(task) ==
    [coin |-> current_coin, timeframe |-> current_timeframe,
     prediction |-> locals[task].prediction[1],
     market_data |-> locals[task].market_data[1],
     awaited |-> awaited]

\* send_full_update, step 3: the payload is built and sent; on a closed
\* socket send_text raises and the except of send_full_update logs it
UpdateSend(task) ==
    /\ pc[task] = "send"
    /\ IF wsOpen
       THEN lastUpdate' = Some(FullUpdate(task)) /\ awaited' = None
       ELSE UNCHANGED <<lastUpdate, awaited>>
    /\ locals' = [locals EXCEPT ![task] = NoLocals]
    /\ pc' = [pc EXCEPT ![task] = AfterUpdate(task)]
    /\ UNCHANGED <<otherVars, wsOpen, active_connections, current_coin, current_timeframe,
                   inbox>>

\* "await asyncio.sleep(10)" returns and the next periodic update begins
MainSleep ==
    /\ pc["main"] = "sleep"
    /\ pc' = [pc EXCEPT !["main"] = "predict"]
    /\ UNCHANGED <<otherVars, wsOpen, active_connections, current_coin, current_timeframe,
                   inbox, locals, awaited, lastUpdate>>

MainStep == UpdatePredict("main") \/ UpdateFetch("main") \/ UpdateSend("main") \/ MainSleep

ListenerStep ==
    \/ ListenerReceive
    \/ ListenerDisconnected
    \/ UpdatePredict("listener")
    \/ UpdateFetch("listener")
    \/ UpdateSend("listener")

WebSocketNext == Connect \/ ClientSubscribe \/ ClientDisconnect \/ MainStep \/ ListenerStep

WebSocketSpec == WebSocketInit /\ [][WebSocketNext]_vars

\* the event loop runs every task that can run; the client owes nothing
WebSocketFairSpec ==
    /\ WebSocketInit
    /\ [][WebSocketNext]_vars
    /\ WF_vars(Connect)
    /\ WF_vars(MainStep)
    /\ WF_vars(ListenerStep)

----------------------------------------------------------------------------
(* combine on layer confidences with decimals, as the layers report them *)

ScoreConfidences == {RInt(0), Rat(376, 10), RInt(50), RInt(100)}
ScoreLayer == [signal : Signals, confidence : ScoreConfidences]
ScoreArgs == [strategy : ScoreLayer, ml : ScoreLayer, news : ScoreLayer]

ScoreInit ==
    /\ weightArgs = <<None, None, None>>
    /\ combiner = CombinerInit(None, None, None)
    /\ layerResults = NeutralLayers
    /\ combined = NotCombined
    /\ EngineIdle
    /\ LayersIdle
    /\ StrategiesIdle
    /\ PurityIdle
    /\ SerializeIdle
    /\ StopLossIdle
    /\ SupportResistanceIdle
    /\ VolumeSpikeIdle
    /\ PredictorIdle
    /\ WebSocketIdle
    /\ scoreArgs \in {Some(a) : a \in ScoreArgs}
    /\ scoreOut = None

CallCombineOnDecimals ==
    /\ scoreArgs # None
    /\ combiner.status = "ok"
    /\ LET a == scoreArgs[1]
       IN  scoreOut' = Some(CombineSignals(combiner,
                                          a.strategy.signal, a.strategy.confidence,
                                          a.ml.signal, a.ml.confidence,
                                          a.news.signal, a.news.confidence))
    /\ UNCHANGED <<combinerVars, engineVars, layerVars, strategyVars, purityVars,
                   serializeVars, stopVars, srVars, vsVars, predictorVars, wsVars, scoreArgs>>

ScoreNext == CallCombineOnDecimals

ScoreSpec == ScoreInit /\ [][ScoreNext]_vars

----------------------------------------------------------------------------
(* What the claims speak of, written from the claims' words *)

\* the weight a caller supplied, as a number: a weight left out counts as
\* its documented default
Supplied(i) ==
    IF weightArgs[i] # None THEN weightArgs[i][1]
    ELSE CASE i = 1 -> STRATEGY_WEIGHT [] i = 2 -> ML_WEIGHT [] OTHER -> NEWS_WEIGHT

SuppliedSum == RAdd(RAdd(Supplied(1), Supplied(2)), Supplied(3))
AllSupplied == \A i \in 1..3 : weightArgs[i] # None
SomeSuppliedNegative == \E i \in 1..3 : weightArgs[i] # None /\ weightArgs[i][1][1] < 0

Constructed == combiner.status = "ok"
WeightSum == RAdd(RAdd(combiner.strategy_weight, combiner.ml_weight), combiner.news_weight)

SigS == layerResults.strategy.signal
SigM == layerResults.ml.signal
SigN == layerResults.news.signal
ConfS == layerResults.strategy.avg_confidence
ConfM == layerResults.ml.avg_confidence
ConfN == layerResults.news.confidence

Score(sig) == IF sig = "BUY" THEN 1 ELSE IF sig = "SELL" THEN -1 ELSE 0

\* sum over the layers of normalizedWeight * signalScore * confidence / 100
ExpectedScore ==
    RAdd(RAdd(RMul(combiner.strategy_weight, Rat(Score(SigS) * ConfS, 100)),
              RMul(combiner.ml_weight, Rat(Score(SigM) * ConfM, 100))),
         RMul(combiner.news_weight, Rat(Score(SigN) * ConfN, 100)))

\* the weight-averaged layer confidence
WeightedAverage ==
    RAdd(RAdd(RMul(combiner.strategy_weight, RInt(ConfS)),
              RMul(combiner.ml_weight, RInt(ConfM))),
         RMul(combiner.news_weight, RInt(ConfN)))

AllSame == SigS = SigM /\ SigM = SigN /\ SigS # "NEUTRAL"
Opposite == {SigS, SigM} = {"BUY", "SELL"}
Boosted == "All sources agree" \in combined.log
Penalized == "Strategy and ML disagree" \in combined.log

----------------------------------------------------------------------------
(* Claims about the combiner *)

\* C1: for every combiner that can be constructed and every triple of layer
\* results with confidences in [0,100], combine returns a final_confidence
\* in [0,100].  (Fails: the constructor accepts negative weights, see C3.)
C1_ConfidenceInRange ==
    combined.called =>
        /\ combined.final_confidence >= 0
        /\ combined.final_confidence <= 100 * 100

\* C2: after construction the three normalized weights sum to 1, whatever
\* raw values were passed.
C2_WeightsSumToOne == Constructed => WeightSum = RInt(1)

C2_Witness ==
    /\ Constructed
    /\ weightArgs = <<Some(Rat(1, 2)), Some(Rat(1, 2)), None>>
    /\ combiner.news_weight = Rat(1, 5)

\* C3: weights that sum to zero, or any negative weight, are rejected at
\* construction with an explicit configuration error; no combiner has a
\* negative normalized weight; construction never divides by zero.
C3_BadWeightsRejected ==
    /\ combiner.status # "ZeroDivisionError"
    /\ Constructed =>
          /\ combiner.strategy_weight[1] >= 0
          /\ combiner.ml_weight[1] >= 0
          /\ combiner.news_weight[1] >= 0
    /\ (combiner.status # "none" /\ (SomeSuppliedNegative \/ SuppliedSum = RInt(0)))
          => combiner.status = "ConfigurationError"

\* C6: finalScore is the weighted sum of signal scores times confidence/100,
\* it lies in [-1,1], and the signal is BUY exactly when finalScore > 0.15,
\* SELL exactly when finalScore < -0.15, NEUTRAL otherwise.  (The bound
\* fails: the constructor accepts negative weights, see C3.)
C6_ScoreAndThresholds ==
    combined.called =>
        /\ combined.final_score = Round(ExpectedScore, 1000)
        /\ RLe(RInt(-1), ExpectedScore) /\ RLe(ExpectedScore, RInt(1))
        /\ combined.final_signal = "BUY" <=> RLt(Rat(15, 100), ExpectedScore)
        /\ combined.final_signal = "SELL" <=> RLt(ExpectedScore, Rat(-15, 100))
        /\ combined.final_signal \in Signals

\* C7: the +15 boost is added once, capped at 100, if and only if all three
\* signals are BUY or all are SELL; when the signals neither all agree nor
\* strategy and ml are opposite, the confidence returned is the weighted
\* average (as rounded to two decimals by the return statement).
C7_BoostOnlyOnFullAgreement ==
    combined.called =>
        /\ Boosted <=> AllSame
        /\ AllSame =>
              combined.final_confidence
                  = Round(RMin(RInt(100), RAdd(WeightedAverage, RInt(15))), 100)
        /\ (~AllSame /\ ~Opposite) =>
              combined.final_confidence = Round(WeightedAverage, 100)

\* all three BUY at confidence 100: the boost is applied and capped at 100
C7_Witness ==
    /\ combined.called
    /\ SigS = "BUY" /\ SigM = "BUY" /\ SigN = "BUY"
    /\ ConfS = 100 /\ ConfM = 100 /\ ConfN = 100
    /\ weightArgs = <<None, None, None>>
    /\ Boosted
    /\ combined.final_confidence = 100 * 100

\* the usage example: BUY 65, BUY 58, NEUTRAL 45 under the default weights
\* gives BUY at 57.55, the plain weighted average
C7_UsageExample ==
    /\ combined.called
    /\ SigS = "BUY" /\ SigM = "BUY" /\ SigN = "NEUTRAL"
    /\ ConfS = 65 /\ ConfM = 58 /\ ConfN = 45
    /\ weightArgs = <<None, None, None>>
    /\ ~Boosted
    /\ combined.final_signal = "BUY"
    /\ combined.final_confidence = 5755

\* C8: when strategy and ml are opposite, 20 is subtracted from the weighted
\* average, floored at 0, whatever the news layer says; the penalty is
\* applied in no other case.
C8_PenaltyOnStrategyMlOpposite ==
    combined.called =>
        /\ Penalized <=> Opposite
        /\ Opposite =>
              combined.final_confidence
                  = Round(RMax(RInt(0), RSub(WeightedAverage, RInt(20))), 100)
        /\ ~Opposite =>
              combined.final_confidence
                  \in {Round(WeightedAverage, 100),
                       Round(RMin(RInt(100), RAdd(WeightedAverage, RInt(15))), 100)}

\* strategy BUY against ml SELL with news BUY at full confidence: 25 - 20 = 5
C8_Witness ==
    /\ combined.called
    /\ SigS = "BUY" /\ SigM = "SELL" /\ SigN = "BUY"
    /\ ConfS = 0 /\ ConfM = 0 /\ ConfN = 100
    /\ weightArgs = <<None, None, None>>
    /\ Penalized
    /\ combined.final_confidence = 500

\* C9: no call of combine applies both the +15 boost and the -20 penalty.
C9_BoostAndPenaltyExclusive == combined.called => ~(Boosted /\ Penalized)

C9_Witness == combined.called /\ Boosted /\ ~Penalized /\ SigS = "SELL"

\* C10: each normalized weight is the supplied raw weight divided by the sum
\* of the three supplied raw weights, for every supplied triple with a
\* positive sum, a supplied 0 included.  (Fails: a supplied 0 is replaced by
\* the default.)
C10_ProportionsPreserved ==
    (combiner.status # "none" /\ AllSupplied /\ RLt(RInt(0), SuppliedSum)) =>
        /\ Constructed
        /\ combiner.strategy_weight = RDiv(Supplied(1), SuppliedSum)
        /\ combiner.ml_weight = RDiv(Supplied(2), SuppliedSum)
        /\ combiner.news_weight = RDiv(Supplied(3), SuppliedSum)

----------------------------------------------------------------------------
(* Claims about the target price *)

Final == prediction.final

\* C4: whenever the final confidence is below min_confidence or the final
\* signal is NEUTRAL, the target price and the target type are null, in
\* what calculate_target returns and in the final block of predict.
C4_NoTargetBelowThresholdOrNeutral ==
    /\ (target.called
            /\ (RLt(targetArgs[1].confidence, RInt(minConfidence))
                    \/ targetArgs[1].signal = "NEUTRAL"))
          => (target.target_price = None /\ target.target_type = None)
    /\ (prediction.called
            /\ (RLt(Final.confidence, RInt(minConfidence)) \/ Final.signal = "NEUTRAL"))
          => (Final.target_price = None /\ Final.target_type = None)

\* predict ends on BUY below the threshold over a window long enough for a
\* target: the final block carries no target
C4_Witness ==
    /\ prediction.called
    /\ prediction.error = None
    /\ ohlcv # None
    /\ Len(ohlcv[1]) >= AtrPeriod
    /\ Final.signal = "BUY"
    /\ RLt(Final.confidence, RInt(minConfidence))
    /\ ~Final.meets_threshold
    /\ Final.target_price = None

\* C5: a non-null target_price is strictly above the returned current_price
\* for BUY and strictly below it for SELL, for every candle window (one with
\* zero average true range included) and every confidence at or above the
\* threshold.  (Fails: over a flat window the target equals the price.)
C5_TargetBeyondCurrentPrice ==
    (target.called /\ target.target_price # None) =>
        /\ targetArgs[1].signal = "BUY" =>
              RLt(target.current_price[1], target.target_price[1])
        /\ targetArgs[1].signal = "SELL" =>
              RLt(target.target_price[1], target.current_price[1])

----------------------------------------------------------------------------
(* The layers *)

Results == strategyResults[1]
Outcomes == modelOutcomes[1]
Predictions == Obtained(Outcomes)
Sources == sentimentSources[1]

NoModelObtained == \A i \in 1..Len(Outcomes) : Outcomes[i] = None
NoSentimentSource == Sources.fear_greed = None /\ Sources.news = <<>>

\* C11: a layer with nothing to aggregate (no strategy result, no classifier
\* vote, no sentiment source) answers NEUTRAL with confidence 0
C11_EmptyLayerIsNeutral ==
    /\ (strategyCombined.called /\ Results = <<>>) =>
            /\ strategyCombined.signal = "NEUTRAL"
            /\ strategyCombined.avg_confidence = RInt(0)
    /\ (mlCombined.called /\ NoModelObtained) =>
            /\ mlCombined.signal = "NEUTRAL"
            /\ mlCombined.avg_confidence = RInt(0)
    /\ (sentiment.called /\ NoSentimentSource) =>
            /\ sentiment.signal = "NEUTRAL"
            /\ sentiment.confidence = RInt(0)

\* predict_all has answered although no classifier yielded a vote
C11_Witness == mlCombined.called /\ NoModelObtained
\* how many entries of a vote list carry signal sig, and the plain average of
\* the entries' confidences
Tally(votes, sig) == Cardinality({i \in DOMAIN votes : votes[i].signal = sig})
RECURSIVE ConfidenceTotal(_, _)
ConfidenceTotal(votes, k) ==
    IF k = 0 THEN RInt(0) ELSE RAdd(ConfidenceTotal(votes, k - 1), votes[k].confidence)
Average(votes) == RDiv(ConfidenceTotal(votes, Len(votes)), RInt(Len(votes)))

\* the category whose count is strictly greater than both others, NEUTRAL
\* when there is none
Majority(votes) ==
    LET b == Tally(votes, "BUY")
        s == Tally(votes, "SELL")
        n == Tally(votes, "NEUTRAL")
    IN  IF b > s /\ b > n THEN "BUY"
        ELSE IF s > b /\ s > n THEN "SELL"
        ELSE "NEUTRAL"

LargestTally(votes) ==
    Max3(Tally(votes, "BUY"), Tally(votes, "SELL"), Tally(votes, "NEUTRAL"))

\* the confidence of the strategy aggregator as the rule states it, with the
\* counts taken as fractions of divisor
StrategyRuleConfidence(votes, divisor) ==
    LET sig == Majority(votes)
    IN  IF sig # "NEUTRAL"
        THEN RMin(RInt(100),
                  RAdd(Average(votes), RMul(Rat(Tally(votes, sig), divisor), RInt(20))))
        ELSE RMax(RInt(0),
                  RSub(Average(votes),
                       RMul(RSub(RInt(1), Rat(LargestTally(votes), divisor)), RInt(30))))

TwoDecimals(x) == Rat(Round(x, 100), 100)

\* C12 as claimed: the strategy aggregator answers the strict majority
\* (NEUTRAL on every tie) and its confidence is min(100, average +
\* (winning_count/6)*20) for BUY or SELL and max(0, average -
\* (1 - max_count/6)*30) for NEUTRAL
C12_SixthsOfTheCounts ==
    (strategyCombined.called /\ Results # <<>>) =>
        /\ strategyCombined.signal = Majority(Results)
        /\ strategyCombined.avg_confidence
               = TwoDecimals(StrategyRuleConfidence(Results, 6))

\* C12 as amended: the same rule with the counts taken as fractions of the
\* number of strategies evaluated (6 when all are enabled)
C12_FractionsOfTheEvaluated ==
    (strategyCombined.called /\ Results # <<>>) =>
        /\ strategyCombined.signal = Majority(Results)
        /\ strategyCombined.avg_confidence
               = TwoDecimals(StrategyRuleConfidence(Results, Len(Results)))

\* three strategies are enabled, two say BUY, and the boost is not capped
C12_Witness ==
    /\ strategyCombined.called
    /\ Len(Results) = 3
    /\ Tally(Results, "BUY") = 2
    /\ strategyCombined.signal = "BUY"
    /\ RLt(strategyCombined.avg_confidence, RInt(100))

\* all six strategies answered and BUY and SELL tie at three each
C12_TieWitness ==
    /\ strategyCombined.called
    /\ Tally(Results, "BUY") = 3
    /\ Tally(Results, "SELL") = 3
    /\ strategyCombined.signal = "NEUTRAL"
\* C13: the classifier ensemble answers the strict majority of its n votes
\* (NEUTRAL otherwise), and a winning BUY or SELL has confidence
\* min(100, average + (winning_count/n)*15)
C13_EnsembleMajorityAndBoost ==
    (mlCombined.called /\ Predictions # <<>>) =>
        /\ mlCombined.signal = Majority(Predictions)
        /\ mlCombined.signal # "NEUTRAL" =>
               mlCombined.avg_confidence
                  = TwoDecimals(RMin(RInt(100),
                                     RAdd(Average(Predictions),
                                          RMul(Rat(Tally(Predictions, mlCombined.signal),
                                                   Len(Predictions)),
                                               RInt(15)))))

\* three classifiers voted, SELL wins two to one and the boost is not capped
C13_Witness ==
    /\ mlCombined.called
    /\ Len(Predictions) = 3
    /\ Tally(Predictions, "SELL") = 2
    /\ mlCombined.signal = "SELL"
    /\ RLt(mlCombined.avg_confidence, RInt(100))

\* C14: a NEUTRAL ensemble result for a non-empty vote list has confidence
\* max(0, average - 20)
C14_NeutralPenaltyFlooredAtZero ==
    (mlCombined.called /\ Predictions # <<>> /\ mlCombined.signal = "NEUTRAL") =>
        mlCombined.avg_confidence
           = TwoDecimals(RMax(RInt(0), RSub(Average(Predictions), RInt(20))))
----------------------------------------------------------------------------
(* The sentiment sources as the claims speak of them: each available       *)
(* source has a score, a confidence of its own and a source weight         *)

FearGreedAvailable == Sources.fear_greed # None
ScoredNews == SelectSeq(Sources.news, NonZeroScore)
NewsAvailable == ScoredNews # <<>>
AvailableCount == (IF FearGreedAvailable THEN 1 ELSE 0) + (IF NewsAvailable THEN 1 ELSE 0)

FearGreedScore == Sources.fear_greed[1].sentiment_score
FearGreedConfidence == Sources.fear_greed[1].confidence
NewsScore == RDiv(SumScore(ScoredNews), RInt(Len(ScoredNews)))
NewsConfidence == Average(Sources.news)

\* sum(score*confidence*sourceWeight) and sum(confidence*sourceWeight)
WeightedScoreSum ==
    RAdd(IF FearGreedAvailable
         THEN RMul(FearGreedScore, RMul(FearGreedConfidence, Rat(3, 10))) ELSE RInt(0),
         IF NewsAvailable
         THEN RMul(NewsScore, RMul(NewsConfidence, Rat(7, 10))) ELSE RInt(0))
WeightSumOfSources ==
    RAdd(IF FearGreedAvailable THEN RMul(FearGreedConfidence, Rat(3, 10)) ELSE RInt(0),
         IF NewsAvailable THEN RMul(NewsConfidence, Rat(7, 10)) ELSE RInt(0))
ClaimedScore == RDiv(WeightedScoreSum, WeightSumOfSources)

\* C15: the sentiment score is sum(score*confidence*sourceWeight) /
\* sum(confidence*sourceWeight) over the available sources, and the signal is
\* BUY exactly when it is above 0.2, SELL exactly when it is below -0.2,
\* NEUTRAL otherwise
C15_WeightedScoreAndThresholds ==
    (sentiment.called /\ RLt(RInt(0), WeightSumOfSources)) =>
        /\ sentiment.sentiment_score = ClaimedScore
        /\ sentiment.signal = "BUY" <=> RLt(Rat(2, 10), ClaimedScore)
        /\ sentiment.signal = "SELL" <=> RLt(ClaimedScore, Rat(-2, 10))
        /\ sentiment.signal = "NEUTRAL" <=>
               (RLe(Rat(-2, 10), ClaimedScore) /\ RLe(ClaimedScore, Rat(2, 10)))

\* both sources are available, they pull in opposite directions and the
\* weighted score ends below -0.2
C15_Witness ==
    /\ sentiment.called
    /\ FearGreedAvailable /\ NewsAvailable
    /\ RLt(RInt(0), FearGreedScore) /\ RLt(NewsScore, RInt(0))
    /\ sentiment.signal = "SELL"

\* the score is exactly 0.2 and the answer is NEUTRAL
C15_BoundaryWitness ==
    /\ sentiment.called
    /\ sentiment.sentiment_score = Rat(2, 10)
    /\ sentiment.signal = "NEUTRAL"

\* C16: the confidence the sentiment aggregator returns is the plain average
\* of the confidences of the sources that contributed
C16_ConfidenceIsPlainAverage ==
    (sentiment.called /\ AvailableCount > 0) =>
        sentiment.confidence
           = TwoDecimals(RDiv(RAdd(IF FearGreedAvailable THEN FearGreedConfidence
                                   ELSE RInt(0),
                                   IF NewsAvailable THEN NewsConfidence ELSE RInt(0)),
                              RInt(AvailableCount)))
----------------------------------------------------------------------------
(* Sources that could not be obtained *)

IsObtained(outcome) == outcome # None
ObtainedOutcomes == SelectSeq(Outcomes, IsObtained)
\* the votes of the classifiers that yielded one, in their order
RemainingVotes == [i \in 1..Len(ObtainedOutcomes) |-> ObtainedOutcomes[i][1]]

\* the entries of the sentiment sources that are available
RemainingEntries ==
    (IF FearGreedAvailable THEN FearGreedEntry(Sources.fear_greed) ELSE <<>>)
        \o (IF NewsAvailable THEN NewsEntry(Sources.news) ELSE <<>>)

\* C17: a classifier or sentiment source that could not be obtained is left
\* out: the answer is the one computed from the remaining sources alone, and
\* the failed source is in no vote count, not in the divisor of the
\* confidence average, and not a zero score
C17_FailedSourcesExcluded ==
    /\ mlCombined.called =>
          /\ mlCombined.buy_count = Tally(RemainingVotes, "BUY")
          /\ mlCombined.sell_count = Tally(RemainingVotes, "SELL")
          /\ mlCombined.neutral_count = 0
          /\ mlCombined.signal = Majority(RemainingVotes)
          /\ RemainingVotes # <<>> => mlCombined.total = Some(Len(RemainingVotes))
          /\ mlCombined.signal # "NEUTRAL" =>
                 mlCombined.avg_confidence
                    = TwoDecimals(RMin(RInt(100),
                                       RAdd(Average(RemainingVotes),
                                            MlAgreementBoost(
                                                Tally(RemainingVotes, mlCombined.signal),
                                                Len(RemainingVotes)))))
          /\ (mlCombined.signal = "NEUTRAL" /\ RemainingVotes # <<>>) =>
                 mlCombined.avg_confidence
                    = TwoDecimals(RMax(RInt(20), RSub(Average(RemainingVotes), RInt(20))))
    /\ (sentiment.called /\ RLt(RInt(0), WeightSumOfSources)) =>
          /\ sentiment.num_sources = AvailableCount
          /\ sentiment.confidence
                = TwoDecimals(RDiv(SumConfidence(RemainingEntries), RInt(AvailableCount)))
          /\ (FearGreedAvailable /\ ~NewsAvailable) =>
                 sentiment.sentiment_score = FearGreedScore
          /\ (NewsAvailable /\ ~FearGreedAvailable) =>
                 sentiment.sentiment_score = NewsScore

\* one classifier yielded nothing, the other two voted, and the ensemble
\* counts two
C17_Witness ==
    /\ mlCombined.called
    /\ Len(Outcomes) = 3
    /\ Len(RemainingVotes) = 2
    /\ mlCombined.total = Some(2)

\* the fear/greed request failed and the news alone decide
C17_SentimentWitness ==
    /\ sentiment.called
    /\ ~FearGreedAvailable /\ NewsAvailable
    /\ sentiment.num_sources = 1
    /\ sentiment.signal = "BUY"
----------------------------------------------------------------------------
(* The momentum strategy *)

Close == closes[1]
\* the oscillator's latest value, where the indicator has one
Oscillator == RsiLast(Close, RsiPeriod)[1]
OscillatorAvailable == Len(Close) >= RsiPeriod

\* C18: with a close column shorter than the oscillator's period the
\* momentum strategy answers NEUTRAL with confidence 0
C18_ShortWindowIsNeutralZero ==
    (rsiResult.called /\ Len(Close) < RsiPeriod) =>
        /\ rsiResult.signal = "NEUTRAL"
        /\ rsiResult.confidence = RInt(0)

\* C20: BUY at or below the oversold threshold with confidence
\* min(100, 50 + (oversold - oscillator)*2), SELL at or above the overbought
\* threshold with confidence min(100, 50 + (oscillator - overbought)*2),
\* otherwise NEUTRAL with confidence max(20, |oscillator - 50|)
C20_MomentumRule ==
    (rsiResult.called /\ OscillatorAvailable) =>
        IF RLe(Oscillator, RInt(RSI_OVERSOLD))
        THEN /\ rsiResult.signal = "BUY"
             /\ rsiResult.confidence
                   = TwoDecimals(RMin(RInt(100),
                                      RAdd(RInt(50),
                                           RMul(RSub(RInt(RSI_OVERSOLD), Oscillator),
                                                RInt(2)))))
        ELSE IF RLe(RInt(RSI_OVERBOUGHT), Oscillator)
        THEN /\ rsiResult.signal = "SELL"
             /\ rsiResult.confidence
                   = TwoDecimals(RMin(RInt(100),
                                      RAdd(RInt(50),
                                           RMul(RSub(Oscillator, RInt(RSI_OVERBOUGHT)),
                                                RInt(2)))))
        ELSE /\ rsiResult.signal = "NEUTRAL"
             /\ rsiResult.confidence
                   = TwoDecimals(RMax(RInt(20), RAbs(RSub(Oscillator, RInt(50)))))

\* the oscillator is 25 against the oversold threshold 30: BUY at 60
C20_Witness ==
    /\ rsiResult.called
    /\ OscillatorAvailable
    /\ Oscillator = RInt(25)
    /\ rsiResult.signal = "BUY"
    /\ rsiResult.confidence = RInt(60)

\* the oscillator lies strictly between the thresholds
C20_NeutralWitness ==
    /\ rsiResult.called
    /\ OscillatorAvailable
    /\ RLt(RInt(RSI_OVERSOLD), Oscillator) /\ RLt(Oscillator, RInt(RSI_OVERBOUGHT))
    /\ rsiResult.signal = "NEUTRAL"
----------------------------------------------------------------------------
(* Failures inside predict *)

NeutralDecision ==
    /\ Final.signal = "NEUTRAL"
    /\ Final.confidence = RInt(0)
    /\ Final.target_price = None

\* a step of predict failed: the indexing of an empty window raised
StepFailed == ohlcv # None /\ Len(ohlcv[1]) = 0

\* C19: without price data predict answers a neutral decision (NEUTRAL,
\* confidence 0, no target) that carries a non-null error, and a failure of
\* a step inside predict gives such a decision as well
C19_FailureIsNeutralWithError ==
    (prediction.called /\ (ohlcv = None \/ StepFailed)) =>
        /\ NeutralDecision
        /\ prediction.error # None
----------------------------------------------------------------------------
(* Repeated fusion *)

----------------------------------------------------------------------------
(* Serialization *)

RECURSIVE Nullified(_, _)
\* out is raw with null in the place of every unavailable or non-finite
\* number and every other value kept
Nullified(raw, out) ==
    IF raw.kind \in {"dict", "list"}
    THEN /\ out.kind = raw.kind
         /\ Len(out.items) = Len(raw.items)
         /\ \A i \in DOMAIN raw.items : Nullified(raw.items[i], out.items[i])
    ELSE IF raw.kind \in {"float", "numpy"}
    THEN IF raw.num \in NonFinite THEN out = NoneValue
         ELSE out.kind = "float" /\ out.num = "finite" /\ out.val = raw.val
    ELSE out = raw

RECURSIVE HasNumpyNonFinite(_)
HasNumpyNonFinite(obj) ==
    \/ obj.kind = "numpy" /\ obj.num \in NonFinite
    \/ \E i \in DOMAIN obj.items : HasNumpyNonFinite(obj.items[i])

\* C22: in what _clean_for_serialization returns, every non-finite number,
\* native float or numpy scalar, is null, none is left as NaN or Infinity
\* and none became zero
C22_NonFiniteBecomesNull ==
    cleaned # None => Nullified(rawValue[1], cleaned[1])
----------------------------------------------------------------------------
(* Stop loss *)

StopPrice == stopArgs[1].current_price
AtrStopBelow == RSub(StopPrice, RMul(stopArgs[1].atr, Rat(15, 10)))
AtrStopAbove == RAdd(StopPrice, RMul(stopArgs[1].atr, Rat(15, 10)))
PctStopBelow == RMul(StopPrice, Rat(100 * stopArgs[1].risk_pct[2] - stopArgs[1].risk_pct[1],
                                    100 * stopArgs[1].risk_pct[2]))
PctStopAbove == RMul(StopPrice, Rat(100 * stopArgs[1].risk_pct[2] + stopArgs[1].risk_pct[1],
                                    100 * stopArgs[1].risk_pct[2]))
Larger(a, b) == IF RLt(a, b) THEN b ELSE a
Smaller(a, b) == IF RLt(a, b) THEN a ELSE b

\* C23, as stated: for BUY the stop is below the price and is the larger of
\* the ATR stop and the percentage stop, for SELL it is above the price and
\* is the smaller of the two
C23_TighterStopBeyondPrice ==
    stopLoss # None =>
        /\ stopArgs[1].signal = "BUY" =>
               /\ RLt(stopLoss[1], StopPrice)
               /\ stopLoss[1] = Larger(AtrStopBelow, PctStopBelow)
        /\ stopArgs[1].signal = "SELL" =>
               /\ RLt(StopPrice, stopLoss[1])
               /\ stopLoss[1] = Smaller(AtrStopAbove, PctStopAbove)

\* C23, amended: the stop is the tighter of the two rounded to two decimals,
\* for BUY not above and for SELL not below the price rounded to two decimals
C23_TighterStopRounded ==
    stopLoss # None =>
        /\ stopArgs[1].signal = "BUY" =>
               /\ RLe(stopLoss[1], TwoDecimals(StopPrice))
               /\ stopLoss[1] = TwoDecimals(Larger(AtrStopBelow, PctStopBelow))
        /\ stopArgs[1].signal = "SELL" =>
               /\ RLe(TwoDecimals(StopPrice), stopLoss[1])
               /\ stopLoss[1] = TwoDecimals(Smaller(AtrStopAbove, PctStopAbove))

\* a SELL stop taken from the percentage, being closer than the ATR stop
C23_Witness ==
    /\ stopLoss # None
    /\ stopArgs[1].signal = "SELL"
    /\ RLt(PctStopAbove, AtrStopAbove)
    /\ RLt(StopPrice, stopLoss[1])
    /\ stopLoss[1] = PctStopAbove

\* a BUY stop taken from the ATR, being closer than the percentage stop
C23_BuyWitness ==
    /\ stopLoss # None
    /\ stopArgs[1].signal = "BUY"
    /\ RLt(PctStopBelow, AtrStopBelow)
    /\ RLt(stopLoss[1], StopPrice)
    /\ stopLoss[1] = AtrStopBelow
----------------------------------------------------------------------------
(* Support and resistance *)

SrPrice == srCandles[1][Len(srCandles[1])].close
SrResistances == srResult[1].resistance_levels
SrSupports == srResult[1].support_levels

\* the price has left every resistance level below it
BreakingOutAbove ==
    /\ SrResistances # <<>>
    /\ \A i \in DOMAIN SrResistances : RLt(SrResistances[i], SrPrice)

\* the price has left every support level above it
BreakingDownBelow ==
    /\ SrSupports # <<>>
    /\ \A i \in DOMAIN SrSupports : RLt(SrPrice, SrSupports[i])

\* C24: a price breaking out above the nearest resistance level is
\* classified BUY, a price breaking down below the nearest support level
\* is classified SELL
C24_BreakoutBuyBreakdownSell ==
    srResult # None =>
        /\ BreakingOutAbove => srResult[1].signal = "BUY"
        /\ BreakingDownBelow => srResult[1].signal = "SELL"
----------------------------------------------------------------------------
(* The range of a strategy's answer *)

\* C25: a strategy evaluator answers a signal among BUY, SELL and NEUTRAL
\* and a confidence between 0 and 100, whatever its window and its
\* multiplier option
C25_ConfidenceWithinRange ==
    vsResult # None =>
        /\ vsResult[1].signal \in {"BUY", "SELL", "NEUTRAL"}
        /\ RLe(RInt(0), vsResult[1].confidence)
        /\ RLe(vsResult[1].confidence, RInt(100))
----------------------------------------------------------------------------
(* The classifier layer keeps no decision state *)

\* C26: the models that vote in a predict_all call depend only on the
\* call's coin and timeframe and on the model files: a call naming the
\* coin and timeframe of an earlier call has the voters of that call,
\* whatever was requested in between
C26_VotersDependOnRequestOnly ==
    mlRequest # None =>
        \A e \in firstVoters : e.request = mlRequest[1] => mlVoters = e.voters
----------------------------------------------------------------------------
(* The market WebSocket *)

\* C27: the first full_update after the client's subscription names the
\* subscribed coin and timeframe, and the prediction and the market data
\* of every full_update were computed for the coin and timeframe it names
C27_UpdateMatchesSubscription ==
    lastUpdate # None =>
        LET named == <<lastUpdate[1].coin, lastUpdate[1].timeframe>>
        IN  /\ lastUpdate[1].awaited # None => named = lastUpdate[1].awaited[1]
            /\ lastUpdate[1].prediction = named
            /\ lastUpdate[1].market_data = named

MainLoopStopped == pc["main"] \notin {"predict", "fetch", "send", "sleep"}

\* C28: after the client disconnects the handler eventually removes the
\* connection from active_connections and stops its periodic updates
C28_DisconnectLeadsToRemoval ==
    (pc["main"] # "none" /\ ~wsOpen) ~> (active_connections = <<>> /\ MainLoopStopped)
----------------------------------------------------------------------------
(* The decision and the reported score *)

\* the returned final_score, in thousandths
ReturnedScore == scoreOut[1].final_score

\* C29, as stated: the returned signal is BUY exactly when the returned
\* final_score is above 0.15, SELL exactly when it is below -0.15
C29_SignalIffReturnedScore ==
    scoreOut # None =>
        /\ scoreOut[1].final_signal = "BUY" <=> ReturnedScore > 150
        /\ scoreOut[1].final_signal = "SELL" <=> ReturnedScore < -150

\* C29, amended: BUY if the returned final_score is above 0.15 and only if
\* it is at least 0.15, SELL if it is below -0.15 and only if it is at
\* most -0.15
C29_SignalAgreesUpToRounding ==
    scoreOut # None =>
        /\ ReturnedScore > 150 => scoreOut[1].final_signal = "BUY"
        /\ scoreOut[1].final_signal = "BUY" => ReturnedScore >= 150
        /\ ReturnedScore < -150 => scoreOut[1].final_signal = "SELL"
        /\ scoreOut[1].final_signal = "SELL" => ReturnedScore =< -150

\* a BUY whose score 0.1504 is returned as 0.15
C29_Witness ==
    /\ scoreOut # None
    /\ scoreOut[1].final_signal = "BUY"
    /\ ReturnedScore = 150
    /\ scoreArgs[1].strategy = [signal |-> "BUY", confidence |-> Rat(376, 10)]
----------------------------------------------------------------------------
(* The threshold flag and the target gate *)

\* predict got a non-empty window and went through its steps
Computed == ohlcv # None /\ Len(ohlcv[1]) > 0

TargetOnlyForDecisionAtThreshold ==
    Final.target_price # None =>
        /\ Final.meets_threshold
        /\ RLe(RInt(minConfidence), Final.confidence)
        /\ Final.signal \in {"BUY", "SELL"}

\* C30, as stated: in every prediction meets_threshold is true exactly when
\* final.confidence >= min_confidence, and a target is given only at or
\* above the threshold, on that same confidence, and for BUY or SELL
C30_ThresholdFlagAndTargetGate ==
    prediction.called =>
        /\ Final.meets_threshold <=> RLe(RInt(minConfidence), Final.confidence)
        /\ TargetOnlyForDecisionAtThreshold

\* C30, amended: meets_threshold is true only if final.confidence >=
\* min_confidence, and whenever it is unless the prediction is the empty one
\* of a run that failed
C30_ThresholdFlagOfComputedPrediction ==
    prediction.called =>
        /\ Final.meets_threshold => RLe(RInt(minConfidence), Final.confidence)
        /\ (Computed /\ RLe(RInt(minConfidence), Final.confidence)) => Final.meets_threshold
        /\ ~Computed => ~Final.meets_threshold
        /\ TargetOnlyForDecisionAtThreshold

\* a computed SELL that meets the threshold 60 and carries a target
C30_Witness ==
    /\ prediction.called
    /\ Computed
    /\ Final.signal = "SELL"
    /\ Final.meets_threshold
    /\ minConfidence = 60
    /\ Final.target_price # None

\* a computed decision of confidence 0 under the threshold 0
C30_ZeroThresholdWitness ==
    /\ prediction.called
    /\ Computed
    /\ minConfidence = 0
    /\ Final.confidence = RInt(0)
    /\ Final.meets_threshold

====
